---- MODULE Spec2Model ----
(***************************************************************************)
(* Model of the OCI route parser and access resolver of the registry       *)
(* (registry/app/api/handler/oci/base.go).                                 *)
(*                                                                         *)
(* Strings are sequences of atoms.  The atom "/" is the path separator,    *)
(* ":" the separator of algorithm and hex in a digest and of image and tag *)
(* in an artifact name, "*" the glob wildcard.  Every other atom stands    *)
(* for a run of ordinary characters, so the API literals (manifests,       *)
(* blobs, uploads, tags, referrers) are one-atom strings.                  *)
(***************************************************************************)
EXTENDS Integers, Sequences, FiniteSets, TLC

VARIABLES spaces, registries, req, client, pc, pathVars, calls, result

\* Metadata tables touched by APIController.DeleteRegistry, the last delete
\* request with its response, and the tables as they were before it.
VARIABLES images, tags, manifests, downloadStats, bandwidthStats,
          upstreamProxies, upstreamUse, blobs, delReq, delResp, before

ociVars == <<req, client, pc, pathVars, calls, result>>

tableVars == <<images, tags, manifests, downloadStats, bandwidthStats,
               upstreamProxies, upstreamUse, blobs>>

deleteVars == <<delReq, delResp, before>>

\* The last getManifestList call and what it returned.
VARIABLES listReq, listResult

listVars == <<listReq, listResult>>

\* The last GenerateClientSetupDetails call and the details it returned.
VARIABLES setupReq, setupResp

setupVars == <<setupReq, setupResp>>

\* A persisted upload session, its state when the PATCH requests arrived, the in-process session lock of every node, and the PATCH requests in progress.
VARIABLES uploadSession, uploadSession0, procLock, patchers

patchVars == <<uploadSession, uploadSession0, procLock, patchers>>

\* The manifest PUT requests in progress, the per-tag locks, and the manifest and tag rows present when the requests arrived.
VARIABLES putters, tagLock, rows0

putVars == <<putters, tagLock, rows0>>

\* The upload sessions by id and the last request made on one of them.
VARIABLES uploads, lastOp

uploadVars == <<uploads, lastOp>>

\* ProcessManifest: the last call and what it returned
VARIABLES pmReq, pmResp

processVars == <<pmReq, pmResp>>

\* Infra provider service: stored configurations and resources, the last call and its result
VARIABLES infraConfigs, infraResources, infraReq, infraResp

infraVars == <<infraConfigs, infraResources, infraReq, infraResp>>

\* ExecuteCommandInHomeDirAndLog: the call, its output channel and its context
VARIABLES execPc, outputCh, sent, handled, ctxDone, execVerbose, execResult

execVars == <<execPc, outputCh, sent, handled, ctxDone, execVerbose, execResult>>

\* LifecycleCommand: the JSON document, the decoded command and what the calls returned
VARIABLES lcData, lc, lcErr, lcCommands

lifecycleVars == <<lcData, lc, lcErr, lcCommands>>

vars == <<spaces, registries, ociVars, tableVars, deleteVars, listVars, setupVars, patchVars, putVars, uploadVars, processVars, infraVars, execVars, lifecycleVars>>

\* What the actions of one component leave alone.
outsideOCI == <<tableVars, deleteVars, listVars, setupVars, patchVars, putVars, uploadVars, processVars, infraVars, execVars, lifecycleVars>>
outsideDelete == <<ociVars, listVars, setupVars, patchVars, putVars, uploadVars, processVars, infraVars, execVars, lifecycleVars>>
outsideList == <<ociVars, tableVars, deleteVars, setupVars, patchVars, putVars, uploadVars, processVars, infraVars, execVars, lifecycleVars>>
outsideSetup == <<ociVars, tableVars, deleteVars, listVars, patchVars, putVars, uploadVars, processVars, infraVars, execVars, lifecycleVars>>
outsidePatch == <<ociVars, tableVars, deleteVars, listVars, setupVars, putVars, uploadVars, processVars, infraVars, execVars, lifecycleVars>>
outsidePut == <<ociVars, deleteVars, listVars, setupVars, patchVars, uploadVars, processVars, infraVars, execVars, lifecycleVars>>
outsideUpload == <<ociVars, tableVars, deleteVars, listVars, setupVars, patchVars, putVars, processVars, infraVars, execVars, lifecycleVars>>
outsideProcess == <<ociVars, tableVars, deleteVars, listVars, setupVars, patchVars, putVars, uploadVars, infraVars, execVars, lifecycleVars>>
outsideInfra == <<ociVars, tableVars, deleteVars, listVars, setupVars, patchVars, putVars, uploadVars, processVars, execVars, lifecycleVars>>
outsideExec == <<ociVars, tableVars, deleteVars, listVars, setupVars, patchVars, putVars, uploadVars, processVars, infraVars, lifecycleVars>>
outsideLifecycle == <<ociVars, tableVars, deleteVars, listVars, setupVars, patchVars, putVars, uploadVars, processVars, infraVars, execVars>>

\* ------------------------------------------------------------------ bounds
MaxImageSegs == 2
MaxShortSegs == 4

\* ------------------------------------------------------------ string atoms
Slash == "/"
Colon == ":"
Star == "*"
Empty == <<>>
Str(a) == <<a>>

\* ----------------------------------------------------- program constants
MinSizeOfURLSegments == 5
Manifests == "manifests"
Blobs == "blobs"
BlobsUploadsSession == "blob-uploads-session"
Tags == "tags"
Referrers == "referrers"
Invalid == "invalid"
APIPartManifest == Str("manifests")
APIPartBlobs == Str("blobs")
APIPartUpload == Str("uploads")
APIPartTag == Str("tags")
APIPartReferrer == Str("referrers")

RouteTypes == {Manifests, Blobs, BlobsUploadsSession, Tags, Referrers, Invalid}

\* ------------------------------------------------- Go strings package
RECURSIVE TrimLeft(_)
TrimLeft(s) ==
  IF s # Empty /\ Head(s) = Slash THEN TrimLeft(Tail(s)) ELSE s

RECURSIVE TrimRight(_)
TrimRight(s) ==
  IF s # Empty /\ s[Len(s)] = Slash THEN TrimRight(SubSeq(s, 1, Len(s) - 1)) ELSE s

\* strings.Trim(s, "/")
Trim(s) == TrimRight(TrimLeft(s))

\* strings.Split(s, "/"): always at least one (possibly empty) element
RECURSIVE SplitFrom(_, _)
SplitFrom(s, cur) ==
  IF s = Empty THEN <<cur>>
  ELSE IF Head(s) = Slash THEN <<cur>> \o SplitFrom(Tail(s), Empty)
  ELSE SplitFrom(Tail(s), Append(cur, Head(s)))

Split(s) == SplitFrom(s, Empty)

\* strings.Join(elems, "/")
RECURSIVE Join(_)
Join(elems) ==
  IF elems = <<>> THEN Empty
  ELSE IF Len(elems) = 1 THEN elems[1]
  ELSE elems[1] \o <<Slash>> \o Join(Tail(elems))

\* Go slice expression s[lo:hi] on a slice of length n (0-based, hi exclusive):
\* in range iff 0 <= lo <= hi <= n, otherwise a run-time panic.
SliceInRange(lo, hi, n) == 0 <= lo /\ lo <= hi /\ hi <= n
GoSlice(s, lo, hi) == SubSeq(s, lo + 1, hi)
\* Go index expression s[i] (0-based): in range iff 0 <= i < n.
IndexInRange(i, n) == 0 <= i /\ i < n
GoIndex(s, i) == s[i + 1]

\* ------------------------------------------------- go-digest digest.Parse
Algorithms == {"sha256", "sha512"}
HexAtoms == {"d1", "d2"}
DigestParseOK(s) ==
  /\ Len(s) = 3
  /\ s[1] \in Algorithms
  /\ s[2] = Colon
  /\ s[3] \in HexAtoms

\* ------------------------------------------------------------ getRouteType
\* getRouteType without the special case of a final "uploads" after "blobs"
getRouteTypeBlobsOnly(url) ==
  LET u == Trim(url)
      segments == Split(u)
      n == Len(segments)
  IN IF n < MinSizeOfURLSegments THEN Invalid
     ELSE LET typ == GoIndex(segments, n - 2)
          IN CASE typ = APIPartManifest -> Manifests
               [] typ = APIPartBlobs -> Blobs
               [] typ = APIPartUpload -> BlobsUploadsSession
               [] typ = APIPartTag -> Tags
               [] typ = APIPartReferrer -> Referrers
               [] OTHER -> Invalid

getRouteType(url) ==
  LET u == Trim(url)
      segments == Split(u)
      n == Len(segments)
  IN IF n < MinSizeOfURLSegments THEN Invalid
     ELSE LET typ == GoIndex(segments, n - 2)
          IN CASE typ = APIPartManifest -> Manifests
               [] typ = APIPartBlobs ->
                    IF GoIndex(segments, n - 1) = APIPartUpload
                    THEN BlobsUploadsSession ELSE Blobs
               [] typ = APIPartUpload -> BlobsUploadsSession
               [] typ = APIPartTag -> Tags
               [] typ = APIPartReferrer -> Referrers
               [] OTHER -> Invalid

\* -------------------------------------------------------- GetQueryParamMap
\* queryParams maps a key to its sequence of values; keys with no value are
\* dropped, the first value wins.
GetQueryParamMap(queryParams) ==
  [key \in {k \in DOMAIN queryParams : Len(queryParams[k]) > 0} |-> queryParams[key][1]]

\* --------------------------------------------------------- ExtractPathVars
Panic == [panic |-> TRUE]

PathVars(root, reg, image, ref, dgst, tag, typ) ==
  [panic |-> FALSE, rootIdentifier |-> root, registry |-> reg, image |-> image,
   ref |-> ref, dgst |-> dgst, tag |-> tag, typ |-> typ]

\* the Manifests case with the two branches of the digest test exchanged
ManifestsCaseSwapped(segments) ==
  LET ref == GoIndex(segments, Len(segments) - 1)
  IN IF DigestParseOK(ref)
     THEN [ref |-> ref, dgst |-> Empty, tag |-> ref]
     ELSE [ref |-> ref, dgst |-> ref, tag |-> Empty]

\* case Manifests (lines 135-142): ref, dgst, tag
ManifestsCase(segments) ==
  LET ref == GoIndex(segments, Len(segments) - 1)
  IN IF ~DigestParseOK(ref)
     THEN [ref |-> ref, dgst |-> Empty, tag |-> ref]
     ELSE [ref |-> ref, dgst |-> ref, tag |-> Empty]

\* the BlobsUploadsSession case without the re-computation of image
UploadCaseKeepImage(segments, image, paramMap) ==
  LET n == Len(segments)
      hasSession == GoIndex(segments, n - 1) # APIPartUpload
                    /\ GoIndex(segments, n - 2) = APIPartUpload
      dgst == IF "digest" \in DOMAIN paramMap THEN paramMap["digest"] ELSE Empty
  IN IF hasSession
     THEN [panic |-> FALSE, image |-> image, ref |-> GoIndex(segments, n - 1), dgst |-> dgst]
     ELSE [panic |-> FALSE, image |-> image, ref |-> Empty, dgst |-> dgst]

\* case BlobsUploadsSession (lines 145-152): image, ref, dgst, or a panic
UploadCase(segments, image, paramMap) ==
  LET n == Len(segments)
      hasSession == GoIndex(segments, n - 1) # APIPartUpload
                    /\ GoIndex(segments, n - 2) = APIPartUpload
      dgst == IF "digest" \in DOMAIN paramMap THEN paramMap["digest"] ELSE Empty
  IN IF hasSession
     THEN IF ~SliceInRange(3, n - 3, n) THEN Panic
          ELSE [panic |-> FALSE, image |-> Join(GoSlice(segments, 3, n - 3)),
                ref |-> GoIndex(segments, n - 1), dgst |-> dgst]
     ELSE [panic |-> FALSE, image |-> image, ref |-> Empty, dgst |-> dgst]

ExtractPathVars(path, paramMap) ==
  LET p == Trim(path)
      segments == Split(p)
      n == Len(segments)
  IN IF ~IndexInRange(1, n) THEN Panic
     ELSE IF ~IndexInRange(2, n) THEN Panic
     ELSE IF ~SliceInRange(3, n - 2, n) THEN Panic
     ELSE
       LET rootIdentifier == GoIndex(segments, 1)
           reg == GoIndex(segments, 2)
           image == Join(GoSlice(segments, 3, n - 2))
           typ == getRouteType(p)
           last == GoIndex(segments, n - 1)
       IN CASE typ = Manifests ->
                 LET m == ManifestsCase(segments)
                 IN PathVars(rootIdentifier, reg, image, m.ref, m.dgst, m.tag, typ)
            [] typ = Blobs ->
                 PathVars(rootIdentifier, reg, image, Empty, last, Empty, typ)
            [] typ = BlobsUploadsSession ->
                 LET u == UploadCase(segments, image, paramMap)
                 IN IF u.panic THEN Panic
                    ELSE PathVars(rootIdentifier, reg, u.image, u.ref, u.dgst, Empty, typ)
            [] typ = Tags ->
                 PathVars(rootIdentifier, reg, image, Empty, Empty, Empty, typ)
            [] typ = Referrers ->
                 PathVars(rootIdentifier, reg, image, Empty, last, Empty, typ)
            [] OTHER ->
                 PathVars(rootIdentifier, reg, image, Empty, Empty, Empty, typ)

\* ------------------------------------------------------ ValidateIdentifier
\* An identifier is a non-empty run of legal characters.
IllegalAtoms == {"!", Slash, Colon, Star}
ValidateIdentifier(identifier) ==
  /\ identifier # Empty
  /\ \A i \in 1..Len(identifier) : identifier[i] \notin IllegalAtoms

\* -------------------------------------------------------------- SpaceStore
LowerAtom(a) == IF a = "ROOT" THEN "root" ELSE a
ToLower(s) == [i \in 1..Len(s) |-> LowerAtom(s[i])]

NotFound == [found |-> FALSE]
Found(rec) == [found |-> TRUE, rec |-> rec]

\* SpaceStore.FindByRefCaseInsensitive
FindByRefCaseInsensitive(spaceSet, ref) ==
  LET hits == {s \in spaceSet : ToLower(s.Identifier) = ToLower(ref)}
  IN IF hits = {} THEN NotFound ELSE Found(CHOOSE s \in hits : TRUE)

\* SpaceStore.Find
Find(spaceSet, id) ==
  LET hits == {s \in spaceSet : s.ID = id}
  IN IF hits = {} THEN NotFound ELSE Found(CHOOSE s \in hits : TRUE)

\* ------------------------------------------------------------- RegistryDao
GetByRootParentIDAndName(registrySet, rootID, name) ==
  LET hits == {g \in registrySet : g.RootParentID = rootID /\ g.Name = name}
  IN IF hits = {} THEN NotFound ELSE Found(CHOOSE g \in hits : TRUE)

\* ---------------------------------------------------- MatchArtifactFilter
\* Glob match of a pattern against a whole string; "*" matches any run of
\* atoms, every other atom matches itself.
RECURSIVE GlobMatch(_, _)
GlobMatch(pattern, s) ==
  IF pattern = Empty THEN s = Empty
  ELSE IF Head(pattern) = Star
       THEN GlobMatch(Tail(pattern), s) \/ (s # Empty /\ GlobMatch(pattern, Tail(s)))
       ELSE s # Empty /\ Head(s) = Head(pattern) /\ GlobMatch(Tail(pattern), Tail(s))

\* A pattern with an unclosed character class does not compile.
Malformed(pattern) == \E i \in 1..Len(pattern) : pattern[i] = "["

matchPatterns(patterns, s) ==
  IF \E i \in 1..Len(patterns) : Malformed(patterns[i])
  THEN [flag |-> FALSE, err |-> TRUE]
  ELSE [flag |-> \E i \in 1..Len(patterns) : GlobMatch(patterns[i], s), err |-> FALSE]

MatchArtifactFilter(allowedPattern, blockedPattern, artifact) ==
  LET b == matchPatterns(blockedPattern, artifact)
      a == matchPatterns(allowedPattern, artifact)
  IN IF Len(blockedPattern) > 0 /\ b.err THEN [flag |-> FALSE, err |-> TRUE]
     ELSE IF Len(blockedPattern) > 0 /\ b.flag THEN [flag |-> FALSE, err |-> FALSE]
     ELSE IF Len(allowedPattern) > 0 /\ a.err THEN [flag |-> FALSE, err |-> TRUE]
     ELSE IF Len(allowedPattern) > 0 /\ ~a.flag THEN [flag |-> FALSE, err |-> FALSE]
     ELSE [flag |-> TRUE, err |-> FALSE]

\* ------------------------------------------------------------ stored data
VIRTUAL == "VIRTUAL"
UPSTREAM == "UPSTREAM"

\* Space 1 is the tenant root, space 2 a project below it; the parent
\* space of registry "orphan" no longer exists.
RootSpaceID == 0 + 1
ProjSpaceID == 1 + 1
GoneSpaceID == 8 + 1

InitSpaces ==
  { [ID |-> RootSpaceID, Identifier |-> Str("root")],
    [ID |-> ProjSpaceID, Identifier |-> Str("proj")] }

Reg(id, name, parent, type, allowed, blocked) ==
  [ID |-> id, Name |-> Str(name), ParentID |-> parent, RootParentID |-> RootSpaceID,
   Type |-> type, AllowedPattern |-> allowed, BlockedPattern |-> blocked]

PatAnyLatest == <<Star, Colon, "latest">>
PatImgAny == <<"img", Colon, Star>>
PatBroken == <<"[">>

InitRegistries ==
  { Reg(1, "reg", ProjSpaceID, VIRTUAL, <<>>, <<PatAnyLatest>>),
    Reg(2, "up", RootSpaceID, UPSTREAM, <<PatImgAny>>, <<>>),
    Reg(3, "strict", ProjSpaceID, VIRTUAL, <<PatImgAny>>, <<PatAnyLatest>>),
    Reg(4, "broken", ProjSpaceID, VIRTUAL, <<>>, <<PatBroken>>),
    Reg(5, "orphan", GoneSpaceID, VIRTUAL, <<>>, <<PatAnyLatest>>) }

\* ----------------------------------------------------------------- errors
ErrInvalidIdentifier == "ErrInvalidIdentifier"
ErrCodeRootNotFound == "ErrCodeRootNotFound"
ErrCodeRegNotFound == "ErrCodeRegNotFound"
ErrCodeParentNotFound == "ErrCodeParentNotFound"
ErrCodeDenied == "ErrCodeDenied"
ErrCodeNameUnknown == "NAME_UNKNOWN"

NoInfo == [none |-> TRUE]
Failure(err) == [ok |-> FALSE, err |-> err, info |-> NoInfo]
Success(info) == [ok |-> TRUE, err |-> "nil", info |-> info]

\* --------------------------------------------------------- GetRegistryInfo
NoVal == [none |-> TRUE]

CallValidate == "metadata.ValidateIdentifier"
CallFindRoot == "SpaceStore.FindByRefCaseInsensitive"
CallFindRegistry == "RegistryDao.GetByRootParentIDAndName"
CallFindParent == "SpaceStore.Find"
CallFilter == "MatchArtifactFilter"
StorageCalls == {CallFindRoot, CallFindRegistry, CallFindParent}

\* lines 210-225
RegistryInfo(pv, root, reg, path) ==
  [RootIdentifier |-> pv.rootIdentifier, RootParentID |-> root.ID,
   ParentID |-> reg.ParentID, RegIdentifier |-> pv.registry, Image |-> pv.image,
   Reference |-> pv.ref, Digest |-> pv.dgst, Tag |-> pv.tag, Path |-> path]

\* a filter guard that looks at the image only
FilterAppliesImageOnly(info) == info.Image # Empty

\* line 238
FilterApplies(info) == info.Image # Empty /\ info.Tag # Empty

Artifact(info) == info.Image \o <<Colon>> \o info.Tag

\* Outcome of a call of the handler: the parsed path variables, the calls
\* made in order, and the returned (RegistryInfo, error) pair; a panic
\* returns nothing.
Outcome(pv, callSeq, res) ==
  [panic |-> FALSE, pathVars |-> pv, calls |-> callSeq, result |-> res]
Panicked(pv) == [panic |-> TRUE, pathVars |-> pv, calls |-> <<>>, result |-> NoVal]

\* the checks after the lookups without the allow/block filter
ApplyPolicyNoFilter(pv, info, root, reg, remoteSupport, callSeq) ==
  IF root.Identifier = Empty THEN Outcome(pv, callSeq, Failure(ErrCodeParentNotFound))
  ELSE IF pv.registry = Empty THEN Outcome(pv, callSeq, Failure(ErrCodeRegNotFound))
  ELSE IF reg.Type = UPSTREAM /\ ~remoteSupport
       THEN Outcome(pv, callSeq, Failure(ErrCodeDenied))
       ELSE Outcome(pv, callSeq, Success(info))

\* the checks after the lookups without the remote-support gate
ApplyPolicyRemoteAllowed(pv, info, root, reg, remoteSupport, callSeq) ==
  IF root.Identifier = Empty THEN Outcome(pv, callSeq, Failure(ErrCodeParentNotFound))
  ELSE IF pv.registry = Empty THEN Outcome(pv, callSeq, Failure(ErrCodeRegNotFound))
  ELSE LET m == MatchArtifactFilter(reg.AllowedPattern, reg.BlockedPattern, Artifact(info))
           after == IF FilterApplies(info) THEN Append(callSeq, CallFilter) ELSE callSeq
       IN IF FilterApplies(info) /\ (~m.flag \/ m.err)
          THEN Outcome(pv, after, Failure(ErrCodeDenied))
          ELSE Outcome(pv, after, Success(info))

\* lines 227-250: the checks after the three lookups have succeeded
ApplyPolicy(pv, info, root, reg, remoteSupport, callSeq) ==
  IF root.Identifier = Empty THEN Outcome(pv, callSeq, Failure(ErrCodeParentNotFound))
  ELSE IF pv.registry = Empty THEN Outcome(pv, callSeq, Failure(ErrCodeRegNotFound))
  ELSE LET m == MatchArtifactFilter(reg.AllowedPattern, reg.BlockedPattern, Artifact(info))
           after == IF FilterApplies(info) THEN Append(callSeq, CallFilter) ELSE callSeq
       IN IF FilterApplies(info) /\ (~m.flag \/ m.err)
          THEN Outcome(pv, after, Failure(ErrCodeDenied))
          ELSE IF reg.Type = UPSTREAM /\ ~remoteSupport
               THEN Outcome(pv, after, Failure(ErrCodeDenied))
               ELSE Outcome(pv, after, Success(info))

\* a resolver that performs every lookup before it looks at any error
ResolveEager(r, pv, remoteSupport, spaceSet, registrySet) ==
  LET c4 == <<CallValidate, CallFindRoot, CallFindRegistry, CallFindParent>>
      rootSpace == FindByRefCaseInsensitive(spaceSet, pv.rootIdentifier)
  IN IF ~ValidateIdentifier(pv.rootIdentifier)
     THEN Outcome(pv, c4, Failure(ErrInvalidIdentifier))
     ELSE IF ~rootSpace.found
     THEN Outcome(pv, c4, Failure(ErrCodeRootNotFound))
     ELSE LET reg == GetByRootParentIDAndName(registrySet, rootSpace.rec.ID, pv.registry)
          IN IF ~reg.found
             THEN Outcome(pv, c4, Failure(ErrCodeRegNotFound))
             ELSE IF ~Find(spaceSet, reg.rec.ParentID).found
             THEN Outcome(pv, c4, Failure(ErrCodeParentNotFound))
             ELSE ApplyPolicy(pv, RegistryInfo(pv, rootSpace.rec, reg.rec, r.path),
                              rootSpace.rec, reg.rec, remoteSupport, c4)

\* lines 187-208: identifier validation and the three lookups, in order
Resolve(r, pv, remoteSupport, spaceSet, registrySet) ==
  LET c1 == <<CallValidate>>
      c2 == Append(c1, CallFindRoot)
      c3 == Append(c2, CallFindRegistry)
      c4 == Append(c3, CallFindParent)
      rootSpace == FindByRefCaseInsensitive(spaceSet, pv.rootIdentifier)
  IN IF ~ValidateIdentifier(pv.rootIdentifier)
     THEN Outcome(pv, c1, Failure(ErrInvalidIdentifier))
     ELSE IF ~rootSpace.found
     THEN Outcome(pv, c2, Failure(ErrCodeRootNotFound))
     ELSE LET reg == GetByRootParentIDAndName(registrySet, rootSpace.rec.ID, pv.registry)
          IN IF ~reg.found
             THEN Outcome(pv, c3, Failure(ErrCodeRegNotFound))
             ELSE IF ~Find(spaceSet, reg.rec.ParentID).found
             THEN Outcome(pv, c4, Failure(ErrCodeParentNotFound))
             ELSE ApplyPolicy(pv, RegistryInfo(pv, rootSpace.rec, reg.rec, r.path),
                              rootSpace.rec, reg.rec, remoteSupport, c4)

\* a handler that exempts the admin session from the blocked patterns
GetRegistryInfoAdminBypass(r, remoteSupport, spaceSet, registrySet) ==
  LET paramMap == GetQueryParamMap(r.query)
      pv == ExtractPathVars(r.path, paramMap)
      unblocked == { [g EXCEPT !.BlockedPattern = <<>>] : g \in registrySet }
  IN IF pv.panic THEN Panicked(pv)
     ELSE IF r.session.user = "admin"
          THEN Resolve(r, pv, remoteSupport, spaceSet, unblocked)
          ELSE Resolve(r, pv, remoteSupport, spaceSet, registrySet)

\* lines 181-251
GetRegistryInfo(r, remoteSupport, spaceSet, registrySet) ==
  LET paramMap == GetQueryParamMap(r.query)
      pv == ExtractPathVars(r.path, paramMap)
  IN IF pv.panic THEN Panicked(pv)
     ELSE Resolve(r, pv, remoteSupport, spaceSet, registrySet)

\* ---------------------------------------------------------------- requests
\* A session carries the permissions the authorizer grants it on the
\* registry; an operation requires one of them.
Permissions == {"view", "upload", "delete"}
Sessions == { [user |-> "anonymous", perms |-> {}],
              [user |-> "admin", perms |-> Permissions] }

RootNames == { Str("root"), Str("ROOT"), Str("ghost"), <<"bad", "!">> }
RegNames == { Str("reg"), Str("up"), Str("strict"), Str("broken"), Str("orphan"), Str("nope") }
Targets ==
  { <<r, Str("reg")>> : r \in RootNames } \cup { <<Str("root"), g>> : g \in RegNames }

ImageSegs == { Str("img"), APIPartUpload }
RECURSIVE SeqsUpTo(_, _)
SeqsUpTo(S, n) ==
  IF n = 0 THEN { <<>> }
  ELSE LET shorter == SeqsUpTo(S, n - 1)
       IN shorter \cup { Append(q, x) : q \in {t \in shorter : Len(t) = n - 1}, x \in S }
ImageNames == SeqsUpTo(ImageSegs, MaxImageSegs)

DigestD1 == <<"sha256", Colon, "d1">>
DigestD2 == <<"sha256", Colon, "d2">>
BadDigest == <<"sha256", Colon, "zz">>
SessionID == Str("sess")

\* {verb}/{ref} endings of the wire protocol ...
WireTails ==
  { <<APIPartManifest, Str("latest")>>, <<APIPartManifest, Str("v1")>>,
    <<APIPartManifest, DigestD1>>, <<APIPartManifest, BadDigest>>,
    <<APIPartBlobs, DigestD1>>, <<APIPartBlobs, APIPartUpload>>,
    <<APIPartBlobs, APIPartUpload, SessionID>>,
    <<APIPartTag, Str("list")>>, <<APIPartReferrer, DigestD1>> }
\* ... and endings a client can send that are outside it
OddTails ==
  { <<APIPartBlobs, APIPartUpload, APIPartUpload>>,
    <<APIPartUpload, SessionID>>,
    <<Str("catalog"), Str("latest")>> }
Tails == WireTails \cup OddTails

Client(root, reg, imageSegs, tail) ==
  [root |-> root, registry |-> reg, imageSegs |-> imageSegs, tail |-> tail]
ClientSegments(c) == <<Str("v2"), c.root, c.registry>> \o c.imageSegs \o c.tail

Clients ==
  { Client(t[1], t[2], img, tail) : t \in Targets, img \in ImageNames, tail \in Tails }

ShortSegs == { Str("root"), Str("reg"), APIPartManifest, APIPartUpload, Str("latest") }
ShortSegments ==
  { <<Str("v2")>> \o q : q \in SeqsUpTo(ShortSegs, MaxShortSegs - 1) }

\* The URL path of a request: "/" + segments joined by "/" (+ "/").
MkPath(segments, trailing) ==
  <<Slash>> \o Join(segments) \o (IF trailing THEN <<Slash>> ELSE Empty)

Queries ==
  { [k \in {} |-> <<>>],
    [k \in {"digest"} |-> <<DigestD1>>],
    [k \in {"digest"} |-> <<DigestD2, DigestD1>>],
    [k \in {"digest", "mount"} |-> IF k = "digest" THEN <<Empty>> ELSE <<DigestD1>>] }

NoReq == [none |-> TRUE]

Request(path, query, op, session, remoteSupport) ==
  [path |-> path, query |-> query, op |-> op, session |-> session,
   remoteSupport |-> remoteSupport]

\* ------------------------------------------------------------------- Init
\* No metadata rows and no delete call: the state of the other components
\* while only the OCI resolver is exercised.
TablesEmpty ==
  /\ images = {}
  /\ tags = {}
  /\ manifests = {}
  /\ downloadStats = {}
  /\ bandwidthStats = {}
  /\ upstreamProxies = {}
  /\ upstreamUse = {}
  /\ blobs = {}

DeleteIdle ==
  /\ delReq = NoVal
  /\ delResp = NoVal
  /\ before = NoVal

ListIdle ==
  /\ listReq = NoVal
  /\ listResult = NoVal

SetupIdle ==
  /\ setupReq = NoVal
  /\ setupResp = NoVal

PatchIdle ==
  /\ uploadSession = NoVal
  /\ uploadSession0 = NoVal
  /\ procLock = NoVal
  /\ patchers = NoVal

PutIdle ==
  /\ putters = NoVal
  /\ tagLock = NoVal
  /\ rows0 = NoVal

UploadIdle ==
  /\ uploads = NoVal
  /\ lastOp = NoVal

ProcessIdle ==
  /\ pmReq = NoVal
  /\ pmResp = NoVal

InfraIdle ==
  /\ infraConfigs = NoVal
  /\ infraResources = NoVal
  /\ infraReq = NoVal
  /\ infraResp = NoVal

ExecIdle ==
  /\ execPc = NoVal
  /\ outputCh = NoVal
  /\ sent = NoVal
  /\ handled = NoVal
  /\ ctxDone = NoVal
  /\ execVerbose = NoVal
  /\ execResult = NoVal

LifecycleIdle ==
  /\ lcData = NoVal
  /\ lc = NoVal
  /\ lcErr = NoVal
  /\ lcCommands = NoVal

OCIIdle ==
  /\ req = NoReq
  /\ client = NoVal
  /\ pc = "idle"
  /\ pathVars = NoVal
  /\ calls = <<>>
  /\ result = NoVal

Init ==
  /\ spaces = InitSpaces
  /\ registries = InitRegistries
  /\ req = NoReq
  /\ client = NoVal
  /\ pc = "idle"
  /\ pathVars = NoVal
  /\ calls = <<>>
  /\ result = NoVal
  /\ TablesEmpty
  /\ DeleteIdle
  /\ ListIdle
  /\ LifecycleIdle
  /\ ExecIdle
  /\ InfraIdle
  /\ ProcessIdle
  /\ UploadIdle
  /\ PutIdle
  /\ PatchIdle
  /\ SetupIdle

\* ---------------------------------------------------------------- actions
\* A client addresses /v2/{root}/{registry}/{image...}/{tail}; client records
\* what was addressed.
ReceiveWire ==
  /\ pc = "idle"
  /\ \E c \in Clients, trailing \in BOOLEAN, query \in Queries, op \in Permissions,
        session \in Sessions, remoteSupport \in BOOLEAN :
       /\ client' = c
       /\ req' = Request(MkPath(ClientSegments(c), trailing), query, op, session,
                         remoteSupport)
  /\ pc' = "received"
  /\ UNCHANGED <<spaces, registries, pathVars, calls, result>>
  /\ UNCHANGED outsideOCI

\* Any other path under /v2, such as the version probe /v2/.
ReceiveOther ==
  /\ pc = "idle"
  /\ \E sg \in ShortSegments, trailing \in BOOLEAN, query \in Queries, op \in Permissions,
        session \in Sessions, remoteSupport \in BOOLEAN :
       req' = Request(MkPath(sg, trailing), query, op, session, remoteSupport)
  /\ pc' = "received"
  /\ UNCHANGED <<spaces, registries, client, pathVars, calls, result>>
  /\ UNCHANGED outsideOCI

\* The handler calls GetRegistryInfo(r, remoteSupport); it returns or panics.
Handle ==
  /\ pc = "received"
  /\ LET out == GetRegistryInfo(req, req.remoteSupport, spaces, registries)
     IN /\ pathVars' = out.pathVars
        /\ calls' = out.calls
        /\ result' = out.result
        /\ pc' = IF out.panic THEN "panic" ELSE "done"
  /\ UNCHANGED <<spaces, registries, req, client>>
  /\ UNCHANGED outsideOCI

Next ==
  \/ ReceiveWire
  \/ ReceiveOther
  \/ Handle

Spec == Init /\ [][Next]_vars

\* ======================================================================
\* Properties
\* ======================================================================
Handled == pc \in {"done", "panic"}
Returned == pc = "done"

Segments == Split(Trim(req.path))
NSegs == Len(Segments)
LastSeg == Segments[NSegs]
Penultimate == Segments[NSegs - 1]
Route == getRouteType(req.path)

\* ----------------------------------------------------------------- C1
\* The route type the specification assigns to a (penultimate, last) pair.
ExpectedRoute(pen, last) ==
  IF pen = Str("manifests") THEN Manifests
  ELSE IF pen = Str("blobs") /\ last = Str("uploads") THEN BlobsUploadsSession
  ELSE IF pen = Str("blobs") THEN Blobs
  ELSE IF pen = Str("uploads") THEN BlobsUploadsSession
  ELSE IF pen = Str("tags") THEN Tags
  ELSE IF pen = Str("referrers") THEN Referrers
  ELSE Invalid

\* C1: for every handled path with at least 5 segments after trimming,
\* getRouteType returns exactly the route type selected by the penultimate
\* segment (blobs with a final "uploads" giving the upload route), and the
\* parser, where it returns, reports that same type.
C1_RouteClassification ==
  (Handled /\ NSegs >= MinSizeOfURLSegments) =>
     /\ Route \in RouteTypes
     /\ Route = ExpectedRoute(Penultimate, LastSeg)
     /\ (Returned => pathVars.typ = Route)

C1_Witness ==
  /\ Returned
  /\ Penultimate = Str("blobs")
  /\ LastSeg = Str("uploads")
  /\ pathVars.typ = BlobsUploadsSession

\* ----------------------------------------------------------------- C2
HasStorageCall == \E i \in 1..Len(calls) : calls[i] \in StorageCalls

\* C2: a request whose path classifies as Invalid performs no space or
\* registry lookup, and what GetRegistryInfo returns for it is the
\* NAME_UNKNOWN error, never a RegistryInfo.
C2_InvalidRouteNoStorage ==
  (Handled /\ Route = Invalid) =>
     /\ ~HasStorageCall
     /\ (Returned => ~result.ok /\ result.err = ErrCodeNameUnknown)

\* ----------------------------------------------------------------- C3
\* C3: a path of fewer than 5 segments is parsed without a panic, as
\* Invalid, with empty reference, digest and tag.
C3_ShortPathInvalid ==
  (Handled /\ NSegs < MinSizeOfURLSegments) =>
     /\ Returned
     /\ pathVars.typ = Invalid
     /\ pathVars.ref = Empty
     /\ pathVars.dgst = Empty
     /\ pathVars.tag = Empty

\* ----------------------------------------------------------------- C4
\* Endings named by the claim: manifests, blobs, tags, referrers, and
\* blobs/uploads with and without a session id.  A final segment equal to
\* the literal "uploads" is by definition not a session id (the parser reads
\* blobs/uploads/uploads as a new upload), so that ending is not among them.
RoundTripTails == WireTails

\* C4: for a path /v2/{root}/{registry}/{image}/{verb}/{ref} with an image
\* of one or more segments, the parser returns the root, the registry and
\* the '/'-join of the image segments the client addressed.
C4_NestedImageRoundTrip ==
  (Handled /\ client # NoVal /\ Len(client.imageSegs) >= 1
     /\ client.tail \in RoundTripTails) =>
     /\ Returned
     /\ pathVars.rootIdentifier = client.root
     /\ pathVars.registry = client.registry
     /\ pathVars.image = Join(client.imageSegs)

C4_Witness ==
  /\ Returned
  /\ client # NoVal
  /\ Len(client.imageSegs) = 2
  /\ client.tail = <<APIPartBlobs, APIPartUpload, SessionID>>
  /\ pathVars.image = Join(client.imageSegs)
  /\ pathVars.ref = SessionID

\* ----------------------------------------------------------------- C5
ValidDigests == {DigestD1, DigestD2}

\* C5: on a manifests route the final segment is the reference; a valid
\* digest is returned as digest with an empty tag, anything else as tag
\* with an empty digest.
C5_ManifestReference ==
  (Handled /\ Route = Manifests) =>
     /\ Returned
     /\ pathVars.ref = LastSeg
     /\ (LastSeg \in ValidDigests =>
           pathVars.dgst = LastSeg /\ pathVars.tag = Empty)
     /\ (LastSeg \notin ValidDigests =>
           pathVars.tag = LastSeg /\ pathVars.dgst = Empty)

C5_Witness ==
  /\ Returned
  /\ Route = Manifests
  /\ LastSeg = BadDigest
  /\ pathVars.tag = BadDigest
  /\ pathVars.dgst = Empty

\* ----------------------------------------------------------------- C6
QueryDigest ==
  IF "digest" \in DOMAIN req.query /\ Len(req.query["digest"]) > 0
  THEN req.query["digest"][1] ELSE Empty

\* C6: on an upload route with a session id after uploads/, the parser
\* returns the session id as reference, an image that ends before
\* blobs/uploads, and the digest query parameter (empty when absent).
C6_UploadSession ==
  (Handled /\ Route = BlobsUploadsSession /\ Penultimate = APIPartUpload
     /\ LastSeg # APIPartUpload) =>
     /\ Returned
     /\ pathVars.ref = LastSeg
     /\ pathVars.image = Join(SubSeq(Segments, 4, NSegs - 3))
     /\ pathVars.dgst = QueryDigest

\* ----------------------------------------------------------------- C7
\* C7: a RegistryInfo is returned only to a session that holds the
\* permission the operation requires.
C7_PermissionChecked ==
  (Returned /\ result.ok) => req.op \in req.session.perms

\* ----------------------------------------------------------------- C8
\* The registry record a request addresses, found as steps (1)-(4) of the
\* resolver find it: valid root identifier, root space, registry, parent.
ReqRoot == FindByRefCaseInsensitive(spaces, pathVars.rootIdentifier)
ReqRegistry == GetByRootParentIDAndName(registries, ReqRoot.rec.ID, pathVars.registry)
OnExistingRegistry ==
  /\ Returned
  /\ ValidateIdentifier(pathVars.rootIdentifier)
  /\ ReqRoot.found
  /\ ReqRegistry.found
  /\ Find(spaces, ReqRegistry.rec.ParentID).found

ImageTag == pathVars.image \o <<Colon>> \o pathVars.tag
HasImageTag == pathVars.image # Empty /\ pathVars.tag # Empty

MatchesSome(patterns, s) ==
  \E i \in 1..Len(patterns) : ~Malformed(patterns[i]) /\ GlobMatch(patterns[i], s)
FilterFails(g) ==
  \E i \in 1..Len(g.AllowedPattern) \cup 1..Len(g.BlockedPattern) :
     \/ (i <= Len(g.AllowedPattern) /\ Malformed(g.AllowedPattern[i]))
     \/ (i <= Len(g.BlockedPattern) /\ Malformed(g.BlockedPattern[i]))
WithinEnvelope(g, s) ==
  /\ ~FilterFails(g)
  /\ (g.AllowedPattern = <<>> \/ MatchesSome(g.AllowedPattern, s))
  /\ ~MatchesSome(g.BlockedPattern, s)

\* C8: for a request on an existing registry R with non-empty image and
\* tag, GetRegistryInfo succeeds only if image:tag matches an allowed
\* pattern of R (or R allows everything) and no blocked pattern; otherwise,
\* also when the filter cannot be evaluated, the result is DENIED.
C8_PolicyEnvelope ==
  (OnExistingRegistry /\ HasImageTag) =>
     /\ (result.ok => WithinEnvelope(ReqRegistry.rec, ImageTag))
     /\ (~WithinEnvelope(ReqRegistry.rec, ImageTag) => result = Failure(ErrCodeDenied))

C8_Witness ==
  /\ OnExistingRegistry
  /\ HasImageTag
  /\ ReqRegistry.rec.AllowedPattern # <<>>
  /\ ReqRegistry.rec.BlockedPattern # <<>>
  /\ result.ok

\* ----------------------------------------------------------------- C9
\* The same request sent with another session, for another operation.
Variants ==
  { [req EXCEPT !.session = s, !.op = op, !.remoteSupport = rs] :
      s \in Sessions, op \in Permissions, rs \in BOOLEAN }

\* C9: when image:tag of a request on an existing registry R matches a
\* blocked pattern of R, the request and every request that differs from
\* it only in session or operation are all answered DENIED.
C9_BlockedForEveryone ==
  (OnExistingRegistry /\ HasImageTag
     /\ MatchesSome(ReqRegistry.rec.BlockedPattern, ImageTag)) =>
     /\ result = Failure(ErrCodeDenied)
     /\ \A v \in Variants :
          GetRegistryInfo(v, v.remoteSupport, spaces, registries).result
            = Failure(ErrCodeDenied)

C9_Witness ==
  /\ OnExistingRegistry
  /\ HasImageTag
  /\ MatchesSome(ReqRegistry.rec.BlockedPattern, ImageTag)
  /\ req.session.user = "admin"
  /\ req.op = "delete"
  /\ result = Failure(ErrCodeDenied)

\* ---------------------------------------------------------------- C10
CheckOrder == <<CallValidate, CallFindRoot, CallFindRegistry, CallFindParent, CallFilter>>
IsPrefix(a, b) == Len(a) <= Len(b) /\ a = SubSeq(b, 1, Len(a))

\* C10: the resolver performs its checks in the order identifier syntax,
\* root space, registry, parent space, allow/block filter; the first check
\* that fails decides the error and no later check is performed.
C10_CheckOrder ==
  Returned =>
     /\ IsPrefix(calls, CheckOrder)
     /\ IF ~ValidateIdentifier(pathVars.rootIdentifier)
        THEN Len(calls) = 1 /\ ~result.ok
        ELSE IF ~ReqRoot.found
        THEN Len(calls) = 2 /\ result = Failure(ErrCodeRootNotFound)
        ELSE IF ~ReqRegistry.found
        THEN Len(calls) = 3 /\ result = Failure(ErrCodeRegNotFound)
        ELSE IF ~Find(spaces, ReqRegistry.rec.ParentID).found
        THEN Len(calls) = 4 /\ result = Failure(ErrCodeParentNotFound)
        ELSE IF HasImageTag /\ ~WithinEnvelope(ReqRegistry.rec, ImageTag)
        THEN Len(calls) = 5 /\ result = Failure(ErrCodeDenied)
        ELSE Len(calls) >= 4

C10_Witness ==
  /\ Returned
  /\ HasImageTag
  /\ MatchesSome(ReqRegistry.rec.BlockedPattern, ImageTag)
  /\ calls = <<CallValidate, CallFindRoot, CallFindRegistry, CallFindParent>>
  /\ result = Failure(ErrCodeParentNotFound)

\* ---------------------------------------------------------------- C19
\* Requests that carry no tag: a manifest addressed by digest, a blob, a
\* referrers, an upload or a tags request.
AddressedWithoutTag ==
  \/ Route \in {Blobs, BlobsUploadsSession, Tags, Referrers}
  \/ (Route = Manifests /\ LastSeg \in ValidDigests)

\* The stored registries with every allowed and blocked pattern removed.
WithoutPatterns ==
  { [g EXCEPT !.AllowedPattern = <<>>, !.BlockedPattern = <<>>] : g \in registries }

\* C19: for a request without a tag the filter is not evaluated and the
\* answer is the one the same request gets when the registry has no
\* patterns at all; the patterns never turn it into DENIED.
C19_FilterNeedsImageAndTag ==
  (Returned /\ AddressedWithoutTag) =>
     /\ \A i \in 1..Len(calls) : calls[i] # CallFilter
     /\ result = GetRegistryInfo(req, req.remoteSupport, spaces, WithoutPatterns).result

C19_Witness ==
  /\ Returned
  /\ Route = Manifests
  /\ LastSeg = DigestD1
  /\ pathVars.image # Empty
  /\ OnExistingRegistry
  /\ ReqRegistry.rec.BlockedPattern = <<PatBroken>>
  /\ result.ok

SpacePath(s) ==
  IF s.ID = RootSpaceID THEN s.Identifier
  ELSE Str("root") \o <<Slash>> \o s.Identifier

\* SpaceStore.FindByRef
FindByRef(spaceSet, ref) ==
  LET hits == {s \in spaceSet : SpacePath(s) = ref}
  IN IF hits = {} THEN NotFound ELSE Found(CHOOSE s \in hits : TRUE)

\* paths.DisectLeaf: the path before the last "/" and the last element
DisectLeaf(ref) ==
  LET parts == Split(ref)
  IN [parent |-> Join(SubSeq(parts, 1, Len(parts) - 1)), leaf |-> parts[Len(parts)]]

\* RegistryRepository.GetByParentIDAndName
GetByParentIDAndName(registrySet, parentID, name) ==
  LET hits == {g \in registrySet : g.ParentID = parentID /\ g.Name = name}
  IN IF hits = {} THEN NotFound ELSE Found(CHOOSE g \in hits : TRUE)

\* APIController.GetRegistryRequestBaseInfo(ctx, "", regRef): the parent
\* space and the registry named by the reference, or an error.
NoBaseInfo == [ok |-> FALSE]
GetRegistryRequestBaseInfo(registrySet, spaceSet, regRef) ==
  LET d == DisectLeaf(regRef)
      parent == FindByRef(spaceSet, d.parent)
  IN IF ~parent.found THEN NoBaseInfo
     ELSE LET g == GetByParentIDAndName(registrySet, parent.rec.ID, d.leaf)
          IN IF ~g.found THEN NoBaseInfo
             ELSE [ok |-> TRUE, ParentRef |-> d.parent, RegistryIdentifier |-> d.leaf,
                   parentID |-> parent.rec.ID, RegistryID |-> g.rec.ID]

\* apiauth.CheckRegistry with the checks of GetPermissionChecks
PermissionRegistryDelete == "delete"
PermissionRegistryView == "view"
CheckRegistry(session, space, identifier, permission) == permission \in session.perms

\* The tables as one value.
Tables ==
  [registries |-> registries, images |-> images, tags |-> tags,
   manifests |-> manifests, downloadStats |-> downloadStats,
   bandwidthStats |-> bandwidthStats, upstreamProxies |-> upstreamProxies,
   upstreamUse |-> upstreamUse, blobs |-> blobs]

\* Store calls that can return an error in one run of the handler.
FailNone == "none"
FailDownloadStat == "ImageStore.DeleteDownloadStatByRegistryID"
FailBandwidthStat == "ImageStore.DeleteBandwidthStatByRegistryID"
FailImages == "ImageStore.DeleteByRegistryID"
FailRegistry == "RegistryRepository.Delete"
FailFetchProxyIDs == "RegistryRepository.FetchUpstreamProxyIDs"
FailFetchRegistryIDs == "RegistryRepository.FetchRegistriesIDByUpstreamProxyID"
FailGetRegistry == "RegistryRepository.Get"
FailProxyDelete == "UpstreamProxyStore.Delete"
FailAudit == "AuditService.Log"
FailPoints ==
  { FailNone, FailDownloadStat, FailBandwidthStat, FailImages, FailRegistry,
    FailFetchProxyIDs, FailFetchRegistryIDs, FailGetRegistry, FailProxyDelete,
    FailAudit }

\* ------------------------------------------------------------ store calls
DeleteDownloadStatByRegistryID(db, registryID) ==
  [db EXCEPT !.downloadStats = {x \in @ : x.RegistryID # registryID}]

DeleteBandwidthStatByRegistryID(db, registryID) ==
  [db EXCEPT !.bandwidthStats = {x \in @ : x.RegistryID # registryID}]

\* ImageStore.DeleteByRegistryID
DeleteByRegistryID(db, registryID) ==
  [db EXCEPT !.images = {x \in @ : x.RegistryID # registryID}]

\* RegistryRepository.Delete: the registry row goes, and with it the tags
\* and manifests that belong to it and its list of upstream proxies.
RegistryRepositoryDelete(db, parentID, name) ==
  LET gone == {g.ID : g \in {h \in db.registries : h.ParentID = parentID /\ h.Name = name}}
  IN [db EXCEPT !.registries = {g \in @ : g.ID \notin gone},
                !.tags = {x \in @ : x.RegistryID \notin gone},
                !.manifests = {x \in @ : x.RegistryID \notin gone},
                !.upstreamUse = {x \in @ : x.RegistryID \notin gone}]

\* RegistryRepository.FetchUpstreamProxyIDs for one registry identifier
FetchUpstreamProxyIDs(db, identifier, parentID) ==
  { u.ID : u \in { v \in db.upstreamProxies :
        \E g \in db.registries :
           g.ID = v.RegistryID /\ g.Name = identifier /\ g.ParentID = parentID } }

\* RegistryRepository.FetchRegistriesIDByUpstreamProxyID
FetchRegistriesIDByUpstreamProxyID(db, proxyID) ==
  { x.RegistryID : x \in {y \in db.upstreamUse : y.UpstreamProxyID = proxyID} }

\* RegistryRepository.Get
RegistryGet(db, id) ==
  LET hits == {g \in db.registries : g.ID = id}
  IN IF hits = {} THEN NotFound ELSE Found(CHOOSE g \in hits : TRUE)

\* UpstreamProxyStore.Delete
UpstreamProxyStoreDelete(db, parentID, identifier) ==
  LET gone == FetchUpstreamProxyIDs(db, identifier, parentID)
  IN [db EXCEPT !.upstreamProxies = {u \in @ : u.ID \notin gone}]

\* Element [0] of an id list (ids ascending).
First(ids) == CHOOSE x \in ids : \A y \in ids : x <= y

\* Result of a step inside the transaction.
StepOK(db) == [failed |-> FALSE, usedBy |-> Empty, db |-> db]
StepErr(db) == [failed |-> TRUE, usedBy |-> Empty, db |-> db]
StepInUse(db, name) == [failed |-> TRUE, usedBy |-> name, db |-> db]

\* tx.WithTx: the writes of a failed function are rolled back.
WithTx(db, out) == IF out.failed THEN [out EXCEPT !.db = db] ELSE out

\* ------------------------------------------------------- handler helpers
\* a variant that also removes the blobs the registry's manifests reference
deleteUpstreamProxyWithAuditPurgeBlobs(db, spaceSet, regInfo, fail) ==
  IF fail = FailFetchProxyIDs THEN StepErr(db)
  ELSE
    LET proxies == FetchUpstreamProxyIDs(db, regInfo.RegistryIdentifier, regInfo.parentID)
        registryIDs == IF proxies = {} THEN {}
                       ELSE FetchRegistriesIDByUpstreamProxyID(db, First(proxies))
        used == {x \in db.manifests : x.RegistryID = regInfo.RegistryID}
        purged == [db EXCEPT !.blobs = {b \in @ : \A x \in used : b.Digest \notin x.Blobs}]
    IN IF proxies # {} /\ fail = FailFetchRegistryIDs THEN StepErr(db)
       ELSE IF registryIDs # {} THEN
         LET registry == RegistryGet(db, First(registryIDs))
         IN IF fail = FailGetRegistry \/ ~registry.found THEN StepErr(db)
            ELSE IF ~Find(spaceSet, registry.rec.ParentID).found THEN StepErr(db)
            ELSE StepInUse(db, registry.rec.Name)
       ELSE IF fail = FailProxyDelete THEN StepErr(db)
       ELSE StepOK(UpstreamProxyStoreDelete(purged, regInfo.parentID,
                                            regInfo.RegistryIdentifier))

\* a variant that deletes the proxy configuration without asking who uses it
deleteUpstreamProxyWithAuditForce(db, spaceSet, regInfo, fail) ==
  IF fail = FailFetchProxyIDs THEN StepErr(db)
  ELSE IF fail = FailProxyDelete THEN StepErr(db)
  ELSE StepOK(UpstreamProxyStoreDelete(db, regInfo.parentID, regInfo.RegistryIdentifier))

\* deleteUpstreamProxyWithAudit: refuse while a registry still uses the
\* proxy, otherwise delete the proxy configuration; an audit failure is
\* only logged.
deleteUpstreamProxyWithAudit(db, spaceSet, regInfo, fail) ==
  IF fail = FailFetchProxyIDs THEN StepErr(db)
  ELSE
    LET proxies == FetchUpstreamProxyIDs(db, regInfo.RegistryIdentifier, regInfo.parentID)
        registryIDs == IF proxies = {} THEN {}
                       ELSE FetchRegistriesIDByUpstreamProxyID(db, First(proxies))
    IN IF proxies # {} /\ fail = FailFetchRegistryIDs THEN StepErr(db)
       ELSE IF registryIDs # {} THEN
         LET registry == RegistryGet(db, First(registryIDs))
         IN IF fail = FailGetRegistry \/ ~registry.found THEN StepErr(db)
            ELSE IF ~Find(spaceSet, registry.rec.ParentID).found THEN StepErr(db)
            ELSE StepInUse(db, registry.rec.Name)
       ELSE IF fail = FailProxyDelete THEN StepErr(db)
       ELSE StepOK(UpstreamProxyStoreDelete(db, regInfo.parentID,
                                            regInfo.RegistryIdentifier))

\* a variant that leaves the image rows in place
deleteRegistryWithAuditKeepImages(db, regInfo, fail) ==
  IF fail = FailDownloadStat THEN StepErr(db)
  ELSE LET d1 == DeleteDownloadStatByRegistryID(db, regInfo.RegistryID)
  IN IF fail = FailBandwidthStat THEN StepErr(d1)
  ELSE LET d2 == DeleteBandwidthStatByRegistryID(d1, regInfo.RegistryID)
  IN IF fail = FailRegistry THEN StepErr(d2)
  ELSE StepOK(RegistryRepositoryDelete(d2, regInfo.parentID, regInfo.RegistryIdentifier))

\* a variant that returns the error of AuditService.Log
deleteRegistryWithAuditReturnsAuditErr(db, regInfo, fail) ==
  IF fail = FailDownloadStat THEN StepErr(db)
  ELSE LET d1 == DeleteDownloadStatByRegistryID(db, regInfo.RegistryID)
  IN IF fail = FailBandwidthStat THEN StepErr(d1)
  ELSE LET d2 == DeleteBandwidthStatByRegistryID(d1, regInfo.RegistryID)
  IN IF fail = FailImages THEN StepErr(d2)
  ELSE LET d3 == DeleteByRegistryID(d2, regInfo.RegistryID)
  IN IF fail = FailRegistry THEN StepErr(d3)
  ELSE LET d4 == RegistryRepositoryDelete(d3, regInfo.parentID, regInfo.RegistryIdentifier)
  IN IF fail = FailAudit THEN StepErr(d4) ELSE StepOK(d4)

\* deleteRegistryWithAudit: download statistics, bandwidth statistics,
\* images, then the registry row; an audit failure is only logged.
deleteRegistryWithAudit(db, regInfo, fail) ==
  IF fail = FailDownloadStat THEN StepErr(db)
  ELSE LET d1 == DeleteDownloadStatByRegistryID(db, regInfo.RegistryID)
  IN IF fail = FailBandwidthStat THEN StepErr(d1)
  ELSE LET d2 == DeleteBandwidthStatByRegistryID(d1, regInfo.RegistryID)
  IN IF fail = FailImages THEN StepErr(d2)
  ELSE LET d3 == DeleteByRegistryID(d2, regInfo.RegistryID)
  IN IF fail = FailRegistry THEN StepErr(d3)
  ELSE StepOK(RegistryRepositoryDelete(d3, regInfo.parentID, regInfo.RegistryIdentifier))

\* Response of DeleteRegistry: the JSON response type, whether a Go error
\* is returned beside it, and the registry an in-use refusal names.
Response(status, err, usedBy, db) ==
  [resp |-> [status |-> status, err |-> err, usedBy |-> usedBy], db |-> db]

\* The body of the transaction for an upstream registry.
UpstreamTx(db, spaceSet, regInfo, fail) ==
  LET p == deleteUpstreamProxyWithAudit(db, spaceSet, regInfo, fail)
  IN IF p.failed THEN p ELSE deleteRegistryWithAudit(p.db, regInfo, fail)

\* a variant that skips apiauth.CheckRegistry
DeleteRegistryUnchecked(r, db, spaceSet, fail) ==
  LET regInfo == GetRegistryRequestBaseInfo(db.registries, spaceSet, r.ref)
  IN IF ~regInfo.ok THEN Response("400", TRUE, Empty, db)
     ELSE LET space == FindByRef(spaceSet, regInfo.ParentRef)
     IN IF ~space.found THEN Response("400", TRUE, Empty, db)
     ELSE LET repoEntity == GetByParentIDAndName(db.registries, regInfo.parentID,
                                                 regInfo.RegistryIdentifier)
     IN IF ~repoEntity.found THEN Response("404", FALSE, Empty, db)
     ELSE LET out == IF repoEntity.rec.Type = VIRTUAL
                     THEN WithTx(db, deleteRegistryWithAudit(db, regInfo, fail))
                     ELSE WithTx(db, UpstreamTx(db, spaceSet, regInfo, fail))
     IN IF out.failed THEN Response("500", FALSE, out.usedBy, out.db)
        ELSE Response("200", FALSE, Empty, out.db)

\* APIController.DeleteRegistry
DeleteRegistry(r, db, spaceSet, fail) ==
  LET regInfo == GetRegistryRequestBaseInfo(db.registries, spaceSet, r.ref)
  IN IF ~regInfo.ok THEN Response("400", TRUE, Empty, db)
     ELSE LET space == FindByRef(spaceSet, regInfo.ParentRef)
     IN IF ~space.found THEN Response("400", TRUE, Empty, db)
     ELSE IF ~CheckRegistry(r.session, space.rec, regInfo.RegistryIdentifier,
                            PermissionRegistryDelete)
          THEN Response("403", TRUE, Empty, db)
     ELSE LET repoEntity == GetByParentIDAndName(db.registries, regInfo.parentID,
                                                 regInfo.RegistryIdentifier)
     IN IF ~repoEntity.found THEN Response("404", FALSE, Empty, db)
     ELSE LET out == IF repoEntity.rec.Type = VIRTUAL
                     THEN WithTx(db, deleteRegistryWithAudit(db, regInfo, fail))
                     ELSE WithTx(db, UpstreamTx(db, spaceSet, regInfo, fail))
     IN IF out.failed THEN Response("500", FALSE, out.usedBy, out.db)
        ELSE Response("200", FALSE, Empty, out.db)

\* ------------------------------------------------------------ delete data
\* Rows of a registry that holds one image with one tagged manifest.
ImageRow(id) == [RegistryID |-> id, Name |-> Str("img")]
ManifestRow(id) ==
  [ID |-> id, RegistryID |-> id, Image |-> Str("img"), Digest |-> DigestD1,
   Configuration |-> DigestD1, Blobs |-> {DigestD1, DigestD2}]
TagRow(id) ==
  [RegistryID |-> id, Image |-> Str("img"), Name |-> Str("latest"), ManifestID |-> id]
StatRow(id) == [RegistryID |-> id, Image |-> Str("img")]

\* Blobs of the tenant root, shared by every registry below it.
BlobRow(digest, bytes) == [Digest |-> digest, Bytes |-> bytes, RootParentID |-> RootSpaceID]
InitBlobs == { BlobRow(DigestD1, Str("config")), BlobRow(DigestD2, Str("layer")) }

\* Registries that may hold content at the start.
Stockable == { g.ID : g \in {h \in InitRegistries : h.Name \in {Str("reg"), Str("up")}} }

\* Every upstream registry has a proxy configuration.
InitUpstreamProxies ==
  { [ID |-> g.ID, RegistryID |-> g.ID] : g \in {h \in InitRegistries : h.Type = UPSTREAM} }

\* Registry "reg" lists the proxy of registry "up" among its upstreams.
UseOfUp ==
  { [RegistryID |-> g.ID, UpstreamProxyID |-> u.ID] :
      g \in {h \in InitRegistries : h.Name = Str("reg")}, u \in InitUpstreamProxies }

DeleteRefs ==
  { <<"root", Slash, "proj", Slash, "reg">>,
    <<"root", Slash, "up">>,
    <<"root", Slash, "proj", Slash, "strict">>,
    <<"root", Slash, "proj", Slash, "ghost">>,
    <<"ghost", Slash, "reg">> }

DeleteSessions == Sessions \cup { [user |-> "viewer", perms |-> {PermissionRegistryView}] }

DeleteRequests == [ref : DeleteRefs, session : DeleteSessions, fail : FailPoints]

\* ------------------------------------------------------------ delete spec
InitDelete ==
  /\ spaces = InitSpaces
  /\ registries = InitRegistries
  /\ \E stocked \in SUBSET Stockable :
       /\ images = {ImageRow(i) : i \in stocked}
       /\ manifests = {ManifestRow(i) : i \in stocked}
       /\ tags = {TagRow(i) : i \in stocked}
       /\ downloadStats = {StatRow(i) : i \in stocked}
       /\ bandwidthStats = {StatRow(i) : i \in stocked}
  /\ upstreamProxies = InitUpstreamProxies
  /\ upstreamUse \in {{}, UseOfUp}
  /\ blobs = InitBlobs
  /\ DeleteIdle
  /\ OCIIdle
  /\ ListIdle
  /\ LifecycleIdle
  /\ ExecIdle
  /\ InfraIdle
  /\ ProcessIdle
  /\ UploadIdle
  /\ PutIdle
  /\ PatchIdle
  /\ SetupIdle

\* One DeleteRegistry call, from request to response.
DeleteRegistryCall ==
  \E r \in DeleteRequests :
    LET out == DeleteRegistry(r, Tables, spaces, r.fail)
    IN /\ delReq' = r
       /\ before' = Tables
       /\ delResp' = out.resp
       /\ registries' = out.db.registries
       /\ images' = out.db.images
       /\ tags' = out.db.tags
       /\ manifests' = out.db.manifests
       /\ downloadStats' = out.db.downloadStats
       /\ bandwidthStats' = out.db.bandwidthStats
       /\ upstreamProxies' = out.db.upstreamProxies
       /\ upstreamUse' = out.db.upstreamUse
       /\ blobs' = out.db.blobs
       /\ UNCHANGED <<spaces, outsideDelete>>

NextDelete == DeleteRegistryCall

SpecDelete == InitDelete /\ [][NextDelete]_vars

\* -------------------------------------------------- delete properties
DeleteAnswered == delResp # NoVal

\* The registries the reference of the last delete request named when the
\* call began.
Addressed ==
  { g \in before.registries :
      \E sp \in spaces :
         sp.ID = g.ParentID /\ SpacePath(sp) \o <<Slash>> \o g.Name = delReq.ref }

RowsOf(rows, registrySet) == {x \in rows : \E g \in registrySet : x.RegistryID = g.ID}

C12_BlobsUntouched ==
  DeleteAnswered => before.blobs \subseteq blobs

C12_Witness ==
  /\ DeleteAnswered
  /\ delResp.status = "200"
  /\ \E x \in RowsOf(before.manifests, Addressed) :
        \E b \in blobs : b.Digest \in x.Blobs
  /\ \E g \in Addressed : g.Type = UPSTREAM

\* ---------------------------------------------------------------- C20
\* C20: a DeleteRegistry call by a session without the registry-delete
\* permission changes no table, and when the reference names a registry
\* the answer is 403.
C20_DeleteNeedsPermission ==
  (DeleteAnswered /\ PermissionRegistryDelete \notin delReq.session.perms) =>
     /\ Tables = before
     /\ (Addressed # {} => delResp.status = "403" /\ delResp.err)

C20_Witness ==
  /\ DeleteAnswered
  /\ PermissionRegistryDelete \notin delReq.session.perms
  /\ delReq.fail = FailNone
  /\ RowsOf(before.images, Addressed) # {}
  /\ RowsOf(before.downloadStats, Addressed) # {}
  /\ \E g \in Addressed : \E u \in upstreamProxies : u.RegistryID = g.ID
  /\ delResp.status = "403"

\* ---------------------------------------------------------------- C21
\* The call passed the lookups and the permission check and ran its
\* transaction.
Entered == DeleteAnswered /\ delResp.status \in {"200", "500"}

\* The store calls that remove records of a registry.
RegistrySteps == {FailDownloadStat, FailBandwidthStat, FailImages, FailRegistry}

\* A removing store call of the last request returned an error.
StepFailed ==
  /\ Entered
  /\ \/ delReq.fail \in RegistrySteps
     \/ delReq.fail = FailProxyDelete /\ \E g \in Addressed : g.Type = UPSTREAM

\* C21: when a removing store call of DeleteRegistry fails, the answer is
\* 500 and every table is as it was before the call; when only the audit
\* log fails, the answer and the tables are those of a call in which
\* nothing fails.
C21_AllOrNothing ==
  /\ StepFailed =>
       (delResp.status = "500" /\ ~delResp.err /\ Tables = before)
  /\ (Entered /\ delReq.fail = FailAudit) =>
       LET out == DeleteRegistry(delReq, before, spaces, FailNone)
       IN delResp = out.resp /\ Tables = out.db

\* The registry row is the step that fails for an upstream registry whose
\* proxy nobody uses: the proxy, the statistics and the images were already
\* deleted inside the transaction.
C21_Witness ==
  /\ StepFailed
  /\ delReq.fail = FailRegistry
  /\ \E g \in Addressed :
        /\ g.Type = UPSTREAM
        /\ \E u \in upstreamProxies : u.RegistryID = g.ID
  /\ upstreamUse = {}
  /\ RowsOf(images, Addressed) # {}
  /\ RowsOf(downloadStats, Addressed) # {}
  /\ RowsOf(bandwidthStats, Addressed) # {}
  /\ delResp.status = "500"

\* ---------------------------------------------------------------- C22
\* The registries that list the proxy of the addressed upstream registry
\* among their upstreams when the call began.
UsersOfProxy ==
  { h \in before.registries :
      \E g \in Addressed : \E u \in before.upstreamProxies : \E x \in before.upstreamUse :
         /\ g.Type = UPSTREAM
         /\ u.RegistryID = g.ID
         /\ x.UpstreamProxyID = u.ID
         /\ x.RegistryID = h.ID }

\* The lookups that precede the in-use refusal.
ProxyLookups == {FailFetchProxyIDs, FailFetchRegistryIDs, FailGetRegistry}

ParentSpaceExists == FindByRef(spaces, DisectLeaf(delReq.ref).parent).found

\* C23: a DeleteRegistry whose reference names no registry under an
\* existing parent space answers 404 without a Go error and changes no
\* table.
C23_MissingRegistry404 ==
  (DeleteAnswered /\ ParentSpaceExists /\ Addressed = {}) =>
     /\ delResp.status = "404"
     /\ ~delResp.err
     /\ Tables = before

\* ======================================================================
\* APIController.getManifestList (children of a manifest list)

MaxChildren == 3

\* ManifestStore.FindManifestByDigest: the row, ErrResourceNotFound, or
\* another store error for the digests in failing.
ErrResourceNotFound == "ErrResourceNotFound"
ErrStore == "store error"
FindManifestByDigest(rows, registryID, image, dgst, failing) ==
  LET hits == {x \in rows : x.RegistryID = registryID /\ x.Image = image /\ x.Digest = dgst}
  IN IF dgst \in failing THEN [err |-> ErrStore]
     ELSE IF hits = {} THEN [err |-> ErrResourceNotFound]
     ELSE [err |-> "nil", rec |-> CHOOSE x \in hits : TRUE]

\* getManifestConfig: the configuration blob read from the storage driver
getManifestConfig(blobRows, dgst) ==
  LET hits == {b \in blobRows : b.Digest = dgst}
  IN IF hits = {} THEN [err |-> "blob unknown"]
     ELSE [err |-> "nil", OsArch |-> (CHOOSE b \in hits : TRUE).Bytes]

\* getManifestDetails
getManifestDetails(m, mConfig) == [Digest |-> m.Digest, OsArch |-> mConfig.OsArch]

ListFailed(err) == [err |-> err, list |-> <<>>]

\* a loop that skips a missing child in every registry type
RECURSIVE getManifestListSkipAlways(_, _, _, _, _, _, _)
getManifestListSkipAlways(entries, list, registry, image, rows, blobRows, failing) ==
  IF entries = <<>> THEN [err |-> "nil", list |-> list]
  ELSE IF ~DigestParseOK(Head(entries)) THEN ListFailed("invalid digest")
  ELSE
    LET referencedManifest ==
          FindManifestByDigest(rows, registry.ID, image, Head(entries), failing)
    IN IF referencedManifest.err = ErrResourceNotFound
       THEN getManifestListSkipAlways(Tail(entries), list, registry, image, rows,
                                      blobRows, failing)
       ELSE IF referencedManifest.err # "nil" THEN ListFailed(referencedManifest.err)
       ELSE
         LET mConfig == getManifestConfig(blobRows, referencedManifest.rec.Configuration)
         IN IF mConfig.err # "nil" THEN ListFailed(mConfig.err)
            ELSE getManifestListSkipAlways(
                   Tail(entries),
                   Append(list, getManifestDetails(referencedManifest.rec, mConfig)),
                   registry, image, rows, blobRows, failing)

\* The loop of getManifestList over reqManifest.Manifests, list being the
\* details appended so far.
RECURSIVE getManifestList(_, _, _, _, _, _, _)
getManifestList(entries, list, registry, image, rows, blobRows, failing) ==
  IF entries = <<>> THEN [err |-> "nil", list |-> list]
  ELSE IF ~DigestParseOK(Head(entries)) THEN ListFailed("invalid digest")
  ELSE
    LET referencedManifest ==
          FindManifestByDigest(rows, registry.ID, image, Head(entries), failing)
    IN IF referencedManifest.err = ErrResourceNotFound
       THEN IF registry.Type = UPSTREAM
            THEN getManifestList(Tail(entries), list, registry, image, rows,
                                 blobRows, failing)
            ELSE ListFailed("manifest not found")
       ELSE IF referencedManifest.err # "nil" THEN ListFailed(referencedManifest.err)
       ELSE
         LET mConfig == getManifestConfig(blobRows, referencedManifest.rec.Configuration)
         IN IF mConfig.err # "nil" THEN ListFailed(mConfig.err)
            ELSE getManifestList(
                   Tail(entries),
                   Append(list, getManifestDetails(referencedManifest.rec, mConfig)),
                   registry, image, rows, blobRows, failing)

\* -------------------------------------------------------------- list data
DigestD3 == <<"sha512", Colon, "d1">>
ChildDigests == {DigestD1, DigestD2, DigestD3, BadDigest}

\* A child manifest of image "img" in a registry; its configuration blob
\* has the digest of the child.
ChildRow(registryID, dgst) ==
  [ID |-> registryID, RegistryID |-> registryID, Image |-> Str("img"), Digest |-> dgst,
   Configuration |-> dgst, Blobs |-> {dgst}]

ListRegistries == {g \in InitRegistries : g.Name \in {Str("reg"), Str("up")}}

ChildRows == {ChildRow(g.ID, d) : g \in ListRegistries, d \in {DigestD1, DigestD2}}

ListRequests ==
  [entries : SeqsUpTo(ChildDigests, MaxChildren), registry : ListRegistries,
   failing : {{}, {DigestD2}}]

\* -------------------------------------------------------------- list spec
InitList ==
  /\ spaces = InitSpaces
  /\ registries = InitRegistries
  /\ manifests \in SUBSET ChildRows
  /\ blobs \in SUBSET InitBlobs
  /\ images = {}
  /\ tags = {}
  /\ downloadStats = {}
  /\ bandwidthStats = {}
  /\ upstreamProxies = {}
  /\ upstreamUse = {}
  /\ ListIdle
  /\ LifecycleIdle
  /\ ExecIdle
  /\ InfraIdle
  /\ ProcessIdle
  /\ UploadIdle
  /\ PutIdle
  /\ PatchIdle
  /\ SetupIdle
  /\ DeleteIdle
  /\ OCIIdle

\* One call of getManifestList for a deserialized manifest list.
GetManifestListCall ==
  /\ listReq = NoVal
  /\ \E r \in ListRequests :
       /\ listReq' = r
       /\ listResult' = getManifestList(r.entries, <<>>, r.registry, Str("img"),
                                        manifests, blobs, r.failing)
  /\ UNCHANGED <<spaces, registries, outsideList>>

NextList == GetManifestListCall

SpecManifestList == InitList /\ [][NextList]_vars

\* ---------------------------------------------------------------- C13
ListAnswered == listResult # NoVal
ListSucceeded == listResult.err = "nil"

\* The child with this digest is stored for the image in the registry.
ChildFound(d) ==
  \E x \in manifests :
     x.RegistryID = listReq.registry.ID /\ x.Image = Str("img") /\ x.Digest = d

\* The store answers "not found" for this child.
ChildMissing(d) == DigestParseOK(d) /\ d \notin listReq.failing /\ ~ChildFound(d)

\* The child is found and its configuration can be read.
ChildResolves(d) ==
  /\ DigestParseOK(d)
  /\ d \notin listReq.failing
  /\ ChildFound(d)
  /\ \E b \in blobs : b.Digest = d

\* C13: a missing child fails the resolution in a VIRTUAL registry and is
\* skipped in an UPSTREAM registry; a successful result holds exactly one
\* entry per stored child, in the order of the list.
C13_MissingChildren ==
  ListAnswered =>
    LET entries == listReq.entries
        n == Len(entries)
    IN /\ (listReq.registry.Type = VIRTUAL /\ \E i \in 1..n : ChildMissing(entries[i]))
             => ~ListSucceeded
       /\ (listReq.registry.Type = UPSTREAM
             /\ \A i \in 1..n : ChildMissing(entries[i]) \/ ChildResolves(entries[i]))
             => ListSucceeded
       /\ ListSucceeded =>
             [i \in 1..Len(listResult.list) |-> listResult.list[i].Digest]
                = SelectSeq(entries, LAMBDA d : ChildFound(d))

C13_Witness ==
  /\ ListAnswered
  /\ listReq.registry.Type = UPSTREAM
  /\ listReq.entries = <<DigestD2, DigestD3, DigestD1>>
  /\ ListSucceeded
  /\ Len(listResult.list) = 2
  /\ listResult.list[1].Digest = DigestD2

\* ======================================================================
\* APIController.GenerateClientSetupDetails (client setup instructions)

\* Placeholder tokens; each is one atom of a template string.
TokUsername == "<USERNAME>"
TokHostname == "<HOSTNAME>"
TokLoginHostname == "<LOGIN_HOSTNAME>"
TokRegistryName == "<REGISTRY_NAME>"
TokImageName == "<IMAGE_NAME>"
TokTag == "<TAG>"
Tokens == {TokUsername, TokHostname, TokLoginHostname, TokRegistryName, TokImageName, TokTag}

\* An optional *ArtifactParam or *VersionParam: nil, or a pointer to a value.
Nil == [nil |-> TRUE, value |-> Empty]
Ptr(v) == [nil |-> FALSE, value |-> v]

\* strings.ReplaceAll on the first occurrence only
RECURSIVE ReplaceFirst(_, _, _)
ReplaceFirst(s, old, new) ==
  IF s = Empty THEN Empty
  ELSE IF Head(s) = old THEN new \o Tail(s)
  ELSE <<Head(s)>> \o ReplaceFirst(Tail(s), old, new)

\* strings.ReplaceAll(s, old, new) for a one-atom old
RECURSIVE ReplaceAll(_, _, _)
ReplaceAll(s, old, new) ==
  IF s = Empty THEN Empty
  ELSE IF Head(s) = old THEN new \o ReplaceAll(Tail(s), old, new)
  ELSE <<Head(s)>> \o ReplaceAll(Tail(s), old, new)

\* paths.DisectRoot: the first element of a path
DisectRoot(ref) == Split(ref)[1]

\* URLProvider.RegistryURL for a root space
SchemeAtoms == {"https://", "http://"}
RegistryURL(scheme, rootSpace) == <<scheme, "registry.local", Slash>> \o rootSpace

\* common.TrimURLScheme
TrimURLScheme(url) ==
  IF url # Empty /\ Head(url) \in SchemeAtoms THEN Tail(url) ELSE url

\* common.GetHost: the host of a scheme-less URL
GetHost(hostname) == Split(hostname)[1]

Command(label, value) == [Label |-> label, Value |-> value]

\* replaceText applied to one command
replaceText(username, cmd, hostname, repoName, image, tag) ==
  LET c1 == IF username # Empty
            THEN Command(ReplaceAll(cmd.Label, TokUsername, username),
                         ReplaceAll(cmd.Value, TokUsername, username))
            ELSE cmd
      v2 == IF hostname # Empty THEN ReplaceAll(c1.Value, TokHostname, hostname)
            ELSE c1.Value
      v3 == IF hostname # Empty THEN ReplaceAll(v2, TokLoginHostname, GetHost(hostname))
            ELSE v2
      v4 == IF repoName # Empty THEN ReplaceAll(v3, TokRegistryName, repoName) ELSE v3
      v5 == IF ~image.nil THEN ReplaceAll(v4, TokImageName, image.value) ELSE v4
      v6 == IF ~tag.nil THEN ReplaceAll(v5, TokTag, tag.value) ELSE v5
  IN Command(c1.Label, v6)

\* A step with commands, and one whose Commands field is nil.
Step(commands) == [nilCommands |-> FALSE, Commands |-> commands]
StepWithoutCommands == [nilCommands |-> TRUE, Commands |-> <<>>]

\* replacePlaceholders: every command of every step of every section
replacePlaceholders(scheme, sections, username, regRef, image, tag) ==
  LET rootSpace == DisectRoot(regRef)
      registryName == DisectLeaf(regRef).leaf
      hostname == TrimURLScheme(RegistryURL(scheme, rootSpace))
  IN [s \in 1..Len(sections) |->
       [t \in 1..Len(sections[s]) |->
          IF sections[s][t].nilCommands THEN sections[s][t]
          ELSE Step([i \in 1..Len(sections[s][t].Commands) |->
                       replaceText(username, sections[s][t].Commands[i], hostname,
                                   registryName, image, tag)])]]

\* ---------------------------------------------------------- the templates
loginUsernameLabel == <<"Username: ", TokUsername>>
loginUsernameValue == <<TokUsername>>
loginPasswordLabel == <<"Password: *see step 2*">>
blankString == Empty

helmLoginValue == <<"helm registry login ", TokLoginHostname>>
helmPushValue ==
  <<"helm push <CHART_TGZ_FILE> oci:", Slash, Slash, TokHostname, Slash, TokRegistryName>>
helmPullValue ==
  <<"helm pull oci:", Slash, Slash, TokHostname, Slash, TokRegistryName, Slash,
    TokImageName, " --version ", TokTag>>

dockerLoginValue == <<"docker login ", TokLoginHostname>>
dockerPullValue ==
  <<"docker pull ", TokHostname, Slash, TokRegistryName, Slash, TokImageName, Colon, TokTag>>
dockerTagValue ==
  <<"docker tag ", TokImageName, Colon, TokTag, " ", TokHostname, Slash, TokRegistryName,
    Slash, TokImageName, Colon, TokTag>>
dockerPushValue ==
  <<"docker push ", TokHostname, Slash, TokRegistryName, Slash, TokImageName, Colon, TokTag>>

LoginStep(loginValue) ==
  Step(<< Command(blankString, loginValue),
          Command(loginUsernameLabel, loginUsernameValue),
          Command(loginPasswordLabel, blankString) >>)

\* Sections of the Helm details: login, push, pull.
HelmSections ==
  << << LoginStep(helmLoginValue), StepWithoutCommands >>,
     << Step(<< Command(blankString, helmPushValue) >>) >>,
     << Step(<< Command(blankString, helmPullValue) >>) >> >>

\* Sections of the Docker details: login, retag and push, pull.
DockerSections ==
  << << LoginStep(dockerLoginValue), StepWithoutCommands >>,
     << Step(<< Command(blankString, dockerTagValue) >>),
        Step(<< Command(blankString, dockerPushValue) >>) >>,
     << Step(<< Command(blankString, dockerPullValue) >>) >> >>

HELM == "HELM"
DOCKER == "DOCKER"

TemplateOf(packageType) == IF packageType = HELM THEN HelmSections ELSE DockerSections

\* GenerateClientSetupDetails: the sections of the returned details
GenerateClientSetupDetails(scheme, session, packageType, image, tag, registryRef) ==
  LET username == session.email
  IN replacePlaceholders(scheme, TemplateOf(packageType), username, registryRef,
                         image, tag)

\* ------------------------------------------------------------- setup data
SetupSessions ==
  { [user |-> "admin", email |-> Str("admin@example.com")],
    [user |-> "dev", email |-> Str("dev@example.com")],
    [user |-> "service", email |-> Empty] }

SetupRefs ==
  { <<"root", Slash, "proj", Slash, "reg">>,
    <<"root", Slash, "up">>,
    <<"root", Slash, "proj", Slash, "strict">> }

SetupImages == { Nil, Ptr(Str("img")), Ptr(<<"library", Slash, "img">>) }
SetupTags == { Nil, Ptr(Str("v1")), Ptr(Str("latest")) }

SetupRequests ==
  [scheme : SchemeAtoms, session : SetupSessions, packageType : {HELM, DOCKER},
   image : SetupImages, tag : SetupTags, registryRef : SetupRefs]

\* ------------------------------------------------------------- setup spec
InitSetup ==
  /\ spaces = InitSpaces
  /\ registries = InitRegistries
  /\ TablesEmpty
  /\ DeleteIdle
  /\ OCIIdle
  /\ ListIdle
  /\ LifecycleIdle
  /\ ExecIdle
  /\ InfraIdle
  /\ ProcessIdle
  /\ UploadIdle
  /\ PutIdle
  /\ PatchIdle
  /\ SetupIdle

\* One call of GenerateClientSetupDetails.
GenerateClientSetupDetailsCall ==
  /\ setupReq = NoVal
  /\ \E r \in SetupRequests :
       /\ setupReq' = r
       /\ setupResp' = GenerateClientSetupDetails(r.scheme, r.session, r.packageType,
                                                  r.image, r.tag, r.registryRef)
  /\ UNCHANGED <<spaces, registries, outsideSetup>>

NextSetup == GenerateClientSetupDetailsCall

SpecClientSetup == InitSetup /\ [][NextSetup]_vars

\* ---------------------------------------------------------------- C14
SetupAnswered == setupResp # NoVal

\* Positions <<section, step, command>> of the commands of some details.
CommandsAt(sections) ==
  { p \in (1..Len(sections)) \X (1..3) \X (1..3) :
      /\ p[2] <= Len(sections[p[1]])
      /\ p[3] <= Len(sections[p[1]][p[2]].Commands) }

ValueAt(sections, p) == sections[p[1]][p[2]].Commands[p[3]].Value

Occurs(tok, s) == \E i \in 1..Len(s) : s[i] = tok

\* The session or request supplies a value for the token.
Available(tok) ==
  CASE tok = TokUsername -> setupReq.session.email # Empty
    [] tok = TokImageName -> ~setupReq.image.nil
    [] tok = TokTag -> ~setupReq.tag.nil
    [] OTHER -> TRUE

\* The value the session or request supplies for the token.
Supplied(tok) ==
  CASE tok = TokUsername -> setupReq.session.email
    [] tok = TokHostname -> <<"registry.local", Slash, setupReq.registryRef[1]>>
    [] tok = TokLoginHostname -> <<"registry.local">>
    [] tok = TokRegistryName -> <<setupReq.registryRef[Len(setupReq.registryRef)]>>
    [] tok = TokImageName -> setupReq.image.value
    [] tok = TokTag -> setupReq.tag.value

\* A template string with every available token replaced by its value.
RECURSIVE Substituted(_)
Substituted(s) ==
  IF s = Empty THEN Empty
  ELSE (IF Head(s) \in Tokens /\ Available(Head(s)) THEN Supplied(Head(s))
        ELSE <<Head(s)>>) \o Substituted(Tail(s))

\* C14 as stated: no command value of the returned details contains a
\* placeholder token.
C14_NoTokenLeft ==
  SetupAnswered =>
    \A p \in CommandsAt(setupResp) : \A tok \in Tokens : ~Occurs(tok, ValueAt(setupResp, p))

\* C14 amended: every command value is its template with each occurrence
\* of a token replaced by the value from the session or request whenever
\* that value is present (a non-empty user name, a given image parameter,
\* a given version parameter); a token whose value is absent stays.
C14_TokensReplacedWhenAvailable ==
  SetupAnswered =>
    LET template == TemplateOf(setupReq.packageType)
    IN /\ CommandsAt(setupResp) = CommandsAt(template)
       /\ \A p \in CommandsAt(setupResp) :
            /\ ValueAt(setupResp, p) = Substituted(ValueAt(template, p))
            /\ \A tok \in Tokens :
                 Available(tok) => ~Occurs(tok, ValueAt(setupResp, p))

C14_Witness ==
  /\ SetupAnswered
  /\ setupReq.packageType = DOCKER
  /\ setupReq.session.email # Empty
  /\ ValueAt(setupResp, <<2, 1, 1>>) =
       <<"docker tag ", "img", Colon, "v1", " ", "registry.local", Slash, "root", Slash,
         "reg", Slash, "img", Colon, "v1">>

\* ======================================================================
\* PATCH blobs/uploads/{session}: concurrent appends to one upload session

MaxStartOffset == 1

Nodes == {"node1", "node2"}
Patchers == {"patchA", "patchB"}
Free == "free"

Accepted == "202 Accepted"
BlobUploadInvalid == "BLOB_UPLOAD_INVALID"
Pending == "pending"

\* a write of the persisted offset that does not compare
OverwriteOffset(row, expected, chunk) ==
  [ok |-> TRUE,
   row |-> [offset |-> expected + Len(chunk), bytes |-> row.bytes \o chunk]]

\* Compare-and-swap on the persisted offset: the chunk is appended and the
\* offset advanced only if the row still has the offset the writer read.
CompareAndSwapOffset(row, expected, chunk) ==
  IF row.offset = expected
  THEN [ok |-> TRUE,
        row |-> [offset |-> expected + Len(chunk), bytes |-> row.bytes \o chunk]]
  ELSE [ok |-> FALSE, row |-> row]

\* A session that has received n bytes.
SessionAt(n) == [offset |-> n, bytes |-> [i \in 1..n |-> "x"]]

Chunks == { <<"a">>, <<"b">>, <<"b", "b">> }

\* A PATCH request on a node: Content-Range start and body.
PatchRequest(node, start, chunk) ==
  [node |-> node, start |-> start, chunk |-> chunk, pc |-> "arrived", seen |-> 0,
   resp |-> Pending]

InitPatch ==
  /\ spaces = InitSpaces
  /\ registries = InitRegistries
  /\ TablesEmpty
  /\ DeleteIdle
  /\ OCIIdle
  /\ ListIdle
  /\ LifecycleIdle
  /\ ExecIdle
  /\ InfraIdle
  /\ ProcessIdle
  /\ UploadIdle
  /\ PutIdle
  /\ SetupIdle
  /\ \E n \in 0..MaxStartOffset : uploadSession = SessionAt(n)
  /\ uploadSession0 = uploadSession
  /\ procLock = [n \in Nodes |-> Free]
  /\ patchers \in [Patchers -> { PatchRequest(n, s, c) :
                                   n \in Nodes, s \in 0..MaxStartOffset, c \in Chunks }]

\* The handler takes the session lock of its node.
AcquireSessionLock(w) ==
  /\ patchers[w].pc = "arrived"
  /\ procLock[patchers[w].node] = Free
  /\ procLock' = [procLock EXCEPT ![patchers[w].node] = w]
  /\ patchers' = [patchers EXCEPT ![w].pc = "locked"]
  /\ UNCHANGED <<uploadSession, uploadSession0>>

\* It loads the persisted session and checks Content-Range against it.
ValidateRange(w) ==
  /\ patchers[w].pc = "locked"
  /\ patchers' =
       IF patchers[w].start = uploadSession.offset
       THEN [patchers EXCEPT ![w].pc = "validated", ![w].seen = uploadSession.offset]
       ELSE [patchers EXCEPT ![w].pc = "answered", ![w].seen = uploadSession.offset,
                             ![w].resp = BlobUploadInvalid]
  /\ UNCHANGED <<uploadSession, uploadSession0, procLock>>

\* It appends the chunk and advances the persisted offset by compare-and-swap.
AppendChunk(w) ==
  /\ patchers[w].pc = "validated"
  /\ LET cas == CompareAndSwapOffset(uploadSession, patchers[w].seen, patchers[w].chunk)
     IN /\ uploadSession' = cas.row
        /\ patchers' = [patchers EXCEPT ![w].pc = "answered",
                          ![w].resp = IF cas.ok THEN Accepted ELSE BlobUploadInvalid]
  /\ UNCHANGED <<uploadSession0, procLock>>

\* It releases the session lock and the response is sent.
ReleaseSessionLock(w) ==
  /\ patchers[w].pc = "answered"
  /\ procLock' = [procLock EXCEPT ![patchers[w].node] = Free]
  /\ patchers' = [patchers EXCEPT ![w].pc = "done"]
  /\ UNCHANGED <<uploadSession, uploadSession0>>

NextPatch ==
  \E w \in Patchers :
    /\ (AcquireSessionLock(w) \/ ValidateRange(w) \/ AppendChunk(w) \/ ReleaseSessionLock(w))
    /\ UNCHANGED <<spaces, registries, outsidePatch>>

SpecPatchRace == InitPatch /\ [][NextPatch]_vars

\* ---------------------------------------------------------------- C15
\* Both PATCH requests start at the offset the session had when they arrived.
SameOffsetRace ==
  \A w \in Patchers : patchers[w].start = uploadSession0.offset

PatchesDone == \A w \in Patchers : patchers[w].pc = "done"

\* The session holds what it held at the start plus the chunk of w.
AdvancedBy(w) ==
  /\ uploadSession.offset = uploadSession0.offset + Len(patchers[w].chunk)
  /\ uploadSession.bytes = uploadSession0.bytes \o patchers[w].chunk

\* C15: of two PATCH requests that start at the session's offset, at every
\* moment the session holds either its old content or the old content
\* plus the chunk of the one accepted request, and once both are answered
\* exactly one is accepted and the other has BLOB_UPLOAD_INVALID.
C15_UploadCAS ==
  SameOffsetRace =>
    /\ \/ (uploadSession = uploadSession0 /\ \A w \in Patchers : patchers[w].resp # Accepted)
       \/ \E w \in Patchers :
            /\ patchers[w].resp = Accepted
            /\ AdvancedBy(w)
            /\ \A v \in Patchers \ {w} : patchers[v].resp # Accepted
    /\ PatchesDone =>
         \E w \in Patchers :
            /\ patchers[w].resp = Accepted
            /\ \A v \in Patchers \ {w} : patchers[v].resp = BlobUploadInvalid

\* Two nodes, both requests validated against the same offset, one lost
\* the compare-and-swap.
C15_Witness ==
  /\ SameOffsetRace
  /\ PatchesDone
  /\ patchers["patchA"].node # patchers["patchB"].node
  /\ patchers["patchA"].chunk # patchers["patchB"].chunk
  /\ \A w \in Patchers : patchers[w].seen = uploadSession0.offset
  /\ patchers["patchB"].resp = Accepted
  /\ patchers["patchA"].resp = BlobUploadInvalid
  /\ AdvancedBy("patchB")

\* ======================================================================
\* PUT manifests/{reference} into a VIRTUAL registry

Putters == {"putA", "putB"}
Created == "201 Created"
ManifestBlobUnknown == "MANIFEST_BLOB_UNKNOWN"

\* The registry and image every PUT of this scenario addresses.
PutRegistry == CHOOSE g \in InitRegistries : g.Name = Str("reg")
PutImage == Str("img")

\* A manifest payload: its digest, configuration blob and layer blobs.
Payload(id, dgst, config, layers) ==
  [id |-> id, digest |-> dgst, config |-> config, layers |-> layers]

\* a closure check that looks at the configuration blob only
ClosureConfigOnly(payload, blobRows) ==
  \E b \in blobRows : b.Digest = payload.config /\ b.RootParentID = PutRegistry.RootParentID

\* I2: the configuration and every layer are blobs of the tenant root.
Closure(payload, blobRows) ==
  \A d \in {payload.config} \cup payload.layers :
     \E b \in blobRows : b.Digest = d /\ b.RootParentID = PutRegistry.RootParentID

\* a commit order that writes the tag before the manifest
CommitOrderTagFirst == <<"ensureImage", "upsertTag", "insertManifest">>

\* Commit order: ensure Image, insert Manifest, upsert Tag.
CommitOrder == <<"ensureImage", "insertManifest", "upsertTag">>

RowOfPayload(payload) ==
  [ID |-> payload.id, RegistryID |-> PutRegistry.ID, Image |-> PutImage,
   Digest |-> payload.digest, Configuration |-> payload.config,
   Blobs |-> {payload.config} \cup payload.layers]

\* Insert of a manifest row, idempotent on the digest.
InsertManifest(rows, payload) ==
  IF \E x \in rows : x.RegistryID = PutRegistry.ID /\ x.Image = PutImage
                     /\ x.Digest = payload.digest
  THEN rows
  ELSE rows \cup {RowOfPayload(payload)}

\* Upsert of the tag row of (registry, image, name).
UpsertTag(rows, name, manifestID) ==
  {x \in rows : ~(x.RegistryID = PutRegistry.ID /\ x.Image = PutImage /\ x.Name = name)}
    \cup {[RegistryID |-> PutRegistry.ID, Image |-> PutImage, Name |-> name,
           ManifestID |-> manifestID]}

\* ---------------------------------------------------------------- put data
M0 == Payload(10, DigestD3, DigestD1, {})
M1 == Payload(11, DigestD1, DigestD1, {DigestD2})
M2 == Payload(12, DigestD2, DigestD1, {DigestD3})

PutBlobs ==
  { BlobRow(DigestD1, Str("config")), BlobRow(DigestD2, Str("layer")),
    BlobRow(DigestD3, Str("other layer")) }

PutTagNames == { Str("v1"), Str("v2") }

PutRequest(payload, tag) ==
  [payload |-> payload, tag |-> tag, pc |-> "arrived", step |-> 1, resp |-> Pending]

\* ---------------------------------------------------------------- put spec
InitPut ==
  /\ spaces = InitSpaces
  /\ registries = InitRegistries
  /\ DeleteIdle
  /\ OCIIdle
  /\ ListIdle
  /\ LifecycleIdle
  /\ ExecIdle
  /\ InfraIdle
  /\ ProcessIdle
  /\ UploadIdle
  /\ SetupIdle
  /\ PatchIdle
  /\ blobs \in SUBSET PutBlobs
  /\ \E tagged \in BOOLEAN :
       LET stored == Closure(M0, blobs)
       IN /\ manifests = IF stored THEN {RowOfPayload(M0)} ELSE {}
          /\ images = IF stored THEN {ImageRow(PutRegistry.ID)} ELSE {}
          /\ tags = IF stored /\ tagged THEN UpsertTag({}, Str("v2"), M0.id) ELSE {}
  /\ downloadStats = {}
  /\ bandwidthStats = {}
  /\ upstreamProxies = {}
  /\ upstreamUse = {}
  /\ putters \in [Putters -> {PutRequest(m, t) : m \in {M1, M2}, t \in PutTagNames}]
  /\ tagLock = [t \in PutTagNames |-> Free]
  /\ rows0 = [manifests |-> manifests, tags |-> tags]

PutFrame == UNCHANGED <<downloadStats, bandwidthStats, upstreamProxies, upstreamUse,
                        blobs, rows0>>

\* Verification: a manifest with a missing blob is rejected.
VerifyManifest(c) ==
  /\ putters[c].pc = "arrived"
  /\ putters' =
       IF Closure(putters[c].payload, blobs)
       THEN [putters EXCEPT ![c].pc = "verified"]
       ELSE [putters EXCEPT ![c].pc = "done", ![c].resp = ManifestBlobUnknown]
  /\ UNCHANGED <<images, manifests, tags, tagLock>>
  /\ PutFrame

\* The per-(registry, image, tag) lock is taken and the transaction begins.
AcquireTagLock(c) ==
  /\ putters[c].pc = "verified"
  /\ tagLock[putters[c].tag] = Free
  /\ tagLock' = [tagLock EXCEPT ![putters[c].tag] = c]
  /\ putters' = [putters EXCEPT ![c].pc = "tx"]
  /\ UNCHANGED <<images, manifests, tags>>
  /\ PutFrame

\* Position of a putter after one more step of the commit order.
Advance(c) ==
  [putters EXCEPT ![c].step = @ + 1,
                  ![c].pc = IF putters[c].step = Len(CommitOrder) THEN "committed" ELSE "tx"]

AtStep(c, name) ==
  /\ putters[c].pc = "tx"
  /\ CommitOrder[putters[c].step] = name

TxEnsureImage(c) ==
  /\ AtStep(c, "ensureImage")
  /\ images' = images \cup {ImageRow(PutRegistry.ID)}
  /\ putters' = Advance(c)
  /\ UNCHANGED <<manifests, tags, tagLock>>
  /\ PutFrame

TxInsertManifest(c) ==
  /\ AtStep(c, "insertManifest")
  /\ manifests' = InsertManifest(manifests, putters[c].payload)
  /\ putters' = Advance(c)
  /\ UNCHANGED <<images, tags, tagLock>>
  /\ PutFrame

TxUpsertTag(c) ==
  /\ AtStep(c, "upsertTag")
  /\ tags' = UpsertTag(tags, putters[c].tag, putters[c].payload.id)
  /\ putters' = Advance(c)
  /\ UNCHANGED <<images, manifests, tagLock>>
  /\ PutFrame

\* The lock is released and the PUT answered with the manifest's digest.
ReleaseTagLock(c) ==
  /\ putters[c].pc = "committed"
  /\ tagLock' = [tagLock EXCEPT ![putters[c].tag] = Free]
  /\ putters' = [putters EXCEPT ![c].pc = "done", ![c].resp = Created]
  /\ UNCHANGED <<images, manifests, tags>>
  /\ PutFrame

NextPut ==
  \E c \in Putters :
    /\ \/ VerifyManifest(c)
       \/ AcquireTagLock(c)
       \/ TxEnsureImage(c)
       \/ TxInsertManifest(c)
       \/ TxUpsertTag(c)
       \/ ReleaseTagLock(c)
    /\ UNCHANGED <<spaces, registries, outsidePut>>

SpecManifest == InitPut /\ [][NextPut]_vars

\* ---------------------------------------------------------------- C16
PutsDone == \A c \in Putters : putters[c].pc = "done"

\* Every blob the payload references is stored.
AllBlobsPresent(payload) ==
  ({payload.config} \cup payload.layers) \subseteq {b.Digest : b \in blobs}

\* Two valid PUTs of different manifests under the same tag.
TagRace ==
  /\ putters["putA"].tag = putters["putB"].tag
  /\ putters["putA"].payload # putters["putB"].payload
  /\ \A c \in Putters : AllBlobsPresent(putters[c].payload)

\* I3: every tag row references a manifest row of its registry and image.
TagIntegrity ==
  \A t \in tags :
     \E m \in manifests :
        m.ID = t.ManifestID /\ m.RegistryID = t.RegistryID /\ m.Image = t.Image

RowsOfTag(name) ==
  {t \in tags : t.RegistryID = PutRegistry.ID /\ t.Image = PutImage /\ t.Name = name}

\* C16: in every state every tag references an existing manifest, and when
\* two clients have PUT different manifests under one tag, the tag points
\* to exactly one of the two and both manifest rows exist.
C16_TagRace ==
  /\ TagIntegrity
  /\ (TagRace /\ PutsDone) =>
       /\ \E c \in Putters :
            RowsOfTag(putters[c].tag) =
              UpsertTag({}, putters[c].tag, putters[c].payload.id)
       /\ \A c \in Putters :
            /\ RowOfPayload(putters[c].payload) \in manifests
            /\ putters[c].resp = Created

\* The tag existed before, putB committed first and putA last.
C16_Witness ==
  /\ TagRace
  /\ PutsDone
  /\ rows0.tags # {}
  /\ putters["putA"].tag = Str("v2")
  /\ RowsOfTag(Str("v2")) = UpsertTag({}, Str("v2"), putters["putA"].payload.id)
  /\ putters["putA"].payload = M2

\* ---------------------------------------------------------------- C18
\* C18: a PUT into the VIRTUAL registry is answered 201 exactly when every
\* blob the manifest references is present; otherwise it is answered
\* MANIFEST_BLOB_UNKNOWN, no row of that manifest and no tag pointing to
\* it exists, and if every PUT was rejected the manifest and tag rows are
\* the ones present at the start.
C18_ManifestClosure ==
  /\ \A c \in Putters :
       LET p == putters[c].payload
       IN /\ putters[c].resp = Created => AllBlobsPresent(p) /\ RowOfPayload(p) \in manifests
          /\ (putters[c].pc = "done" /\ AllBlobsPresent(p)) => putters[c].resp = Created
          /\ (putters[c].pc = "done" /\ ~AllBlobsPresent(p)) =>
                putters[c].resp = ManifestBlobUnknown
          /\ ~AllBlobsPresent(p) =>
                /\ RowOfPayload(p) \notin manifests
                /\ \A t \in tags : t.ManifestID # p.id
  /\ (\A c \in Putters : ~AllBlobsPresent(putters[c].payload)) =>
        /\ manifests = rows0.manifests
        /\ tags = rows0.tags

\* One PUT rejected for a missing layer although its configuration blob is
\* stored, the other committed under the same tag.
C18_Witness ==
  /\ PutsDone
  /\ putters["putA"].resp = ManifestBlobUnknown
  /\ putters["putA"].payload.config \in {b.Digest : b \in blobs}
  /\ putters["putB"].resp = Created
  /\ putters["putA"].tag = putters["putB"].tag
  /\ rows0.tags # {}

\* ======================================================================
\* Upload session state machine

MaxUploadOffset == 3

OPEN == "OPEN"
RECEIVING == "RECEIVING"
COMMITTED == "COMMITTED"
CANCELLED == "CANCELLED"
EXPIRED == "EXPIRED"
Terminal == {COMMITTED, CANCELLED, EXPIRED}

SessionIds == {"s1", "s2"}
Absent == [state |-> "absent", offset |-> 0, bytes |-> Empty]
UploadSession(state, offset, bytes) == [state |-> state, offset |-> offset, bytes |-> bytes]

BlobUploadUnknown == "BLOB_UPLOAD_UNKNOWN"
DigestInvalid == "DIGEST_INVALID"
NoContent == "204 No Content"

\* The digest of a byte stream.
Sha256(bytes) == <<"sha256", Colon>> \o bytes

Answer(resp, sess) == [resp |-> resp, sess |-> sess]

\* a PATCH that appends in every state
PatchSessionAnyState(sess, start, chunk) ==
  IF sess.state = "absent" THEN Answer(BlobUploadUnknown, sess)
  ELSE IF start # sess.offset THEN Answer(BlobUploadInvalid, sess)
  ELSE Answer(Accepted, UploadSession(RECEIVING, sess.offset + Len(chunk),
                                      sess.bytes \o chunk))

\* PATCH: appends to an OPEN or RECEIVING session at its offset.
PatchSession(sess, start, chunk) ==
  IF sess.state \notin {OPEN, RECEIVING} THEN Answer(BlobUploadUnknown, sess)
  ELSE IF start # sess.offset THEN Answer(BlobUploadInvalid, sess)
  ELSE Answer(Accepted, UploadSession(RECEIVING, sess.offset + Len(chunk),
                                      sess.bytes \o chunk))

\* PUT ?digest=d: commits a RECEIVING session whose bytes hash to d.
PutSession(sess, dgst) ==
  IF sess.state \notin {OPEN, RECEIVING} THEN Answer(BlobUploadUnknown, sess)
  ELSE IF sess.state = OPEN THEN Answer(BlobUploadInvalid, sess)
  ELSE IF Sha256(sess.bytes) # dgst THEN Answer(DigestInvalid, sess)
  ELSE Answer(Created, [sess EXCEPT !.state = COMMITTED])

\* DELETE: cancels an OPEN or RECEIVING session.
DeleteSession(sess) ==
  IF sess.state \notin {OPEN, RECEIVING} THEN Answer(BlobUploadUnknown, sess)
  ELSE Answer(NoContent, [sess EXCEPT !.state = CANCELLED])

\* The idle TTL elapses: an OPEN or RECEIVING session expires.
ExpireSession(sess) ==
  IF sess.state \notin {OPEN, RECEIVING} THEN sess
  ELSE [sess EXCEPT !.state = EXPIRED]

\* A request on a session: its digest parameter where it has one.
Op(name, id, dgst, resp) == [op |-> name, id |-> id, dgst |-> dgst, resp |-> resp]

InitUpload ==
  /\ spaces = InitSpaces
  /\ registries = InitRegistries
  /\ TablesEmpty
  /\ DeleteIdle
  /\ OCIIdle
  /\ ListIdle
  /\ LifecycleIdle
  /\ ExecIdle
  /\ InfraIdle
  /\ ProcessIdle
  /\ SetupIdle
  /\ PatchIdle
  /\ PutIdle
  /\ uploads = [id \in SessionIds |-> Absent]
  /\ lastOp = NoVal

\* POST blobs/uploads/: a new session with a fresh id.
PostUpload ==
  /\ \E id \in SessionIds :
       /\ uploads[id] = Absent
       /\ uploads' = [uploads EXCEPT ![id] = UploadSession(OPEN, 0, Empty)]
       /\ lastOp' = Op("POST", id, Empty, Accepted)

PatchUpload ==
  \E id \in SessionIds, start \in 0..MaxUploadOffset, chunk \in Chunks :
    LET out == PatchSession(uploads[id], start, chunk)
    IN /\ out.sess.offset <= MaxUploadOffset
       /\ uploads' = [uploads EXCEPT ![id] = out.sess]
       /\ lastOp' = Op("PATCH", id, Empty, out.resp)

PutUpload ==
  \E id \in SessionIds : \E dgst \in {Sha256(uploads[id].bytes), BadDigest} :
    LET out == PutSession(uploads[id], dgst)
    IN /\ uploads' = [uploads EXCEPT ![id] = out.sess]
       /\ lastOp' = Op("PUT", id, dgst, out.resp)

DeleteUpload ==
  \E id \in SessionIds :
    LET out == DeleteSession(uploads[id])
    IN /\ uploads' = [uploads EXCEPT ![id] = out.sess]
       /\ lastOp' = Op("DELETE", id, Empty, out.resp)

ExpireUpload ==
  \E id \in SessionIds :
    /\ uploads' = [uploads EXCEPT ![id] = ExpireSession(uploads[id])]
    /\ lastOp' = Op("TTL", id, Empty, Pending)

NextUpload ==
  /\ PostUpload \/ PatchUpload \/ PutUpload \/ DeleteUpload \/ ExpireUpload
  /\ UNCHANGED <<spaces, registries, outsideUpload>>

SpecUpload == InitUpload /\ [][NextUpload]_vars

\* ---------------------------------------------------------------- C17
\* A step of one session from a to b, op being the request that was made.
AllowedMove(a, b, op) ==
  \/ b = a
  \/ /\ a = Absent
     /\ b = UploadSession(OPEN, 0, Empty)
     /\ op.op = "POST"
  \/ /\ a.state \in {OPEN, RECEIVING}
     /\ b.state = RECEIVING
     /\ b.offset > a.offset
     /\ op.op = "PATCH"
  \/ /\ a.state = RECEIVING
     /\ b = [a EXCEPT !.state = COMMITTED]
     /\ op.op = "PUT"
     /\ op.dgst = Sha256(a.bytes)
  \/ /\ a.state \in {OPEN, RECEIVING}
     /\ b = [a EXCEPT !.state = CANCELLED]
     /\ op.op = "DELETE"
  \/ /\ a.state \in {OPEN, RECEIVING}
     /\ b = [a EXCEPT !.state = EXPIRED]
     /\ op.op = "TTL"

UploadStep ==
  \A id \in SessionIds :
     /\ AllowedMove(uploads[id], uploads'[id], lastOp')
     /\ uploads'[id].offset >= uploads[id].offset
     /\ uploads[id].state \in Terminal => uploads'[id] = uploads[id]

\* C17: every step moves a session along OPEN -> RECEIVING -> COMMITTED or
\* to CANCELLED or EXPIRED, commits only on a PUT whose digest is the
\* digest of the received bytes, never lowers the offset, and leaves a
\* COMMITTED, CANCELLED or EXPIRED session exactly as it was.
C17_TerminalImmutable == [][UploadStep]_vars

\* A PATCH at the right offset on a committed session: refused, and the
\* session is still committed at its offset.
C17_Witness ==
  /\ uploads["s1"].state = COMMITTED
  /\ uploads["s1"].offset > 0
  /\ lastOp = Op("PATCH", "s1", Empty, BlobUploadUnknown)
  /\ uploads["s2"].state = EXPIRED

\* ======================================================================
\* APIController.ProcessManifest (manifest details of one tagged version)

ErrNoRows == "sql.ErrNoRows"

\* How the tag store reports a version without a row: the error it returns
\* and whether the *Tag beside it is nil.  The store may hand on the
\* database's sql.ErrNoRows, with a nil or an empty tag, or translate it to
\* ErrResourceNotFound.
MissBehaviours ==
  { [err |-> ErrResourceNotFound, nilTag |-> TRUE],
    [err |-> ErrNoRows, nilTag |-> TRUE],
    [err |-> ErrNoRows, nilTag |-> FALSE] }

\* TagStore.FindTag
FindTag(tagRows, registryID, image, version, miss) ==
  LET hits == {t \in tagRows :
                 t.RegistryID = registryID /\ t.Image = image /\ t.Name = version}
  IN IF hits = {} THEN [err |-> miss.err, isNil |-> miss.nilTag, ManifestID |-> 0]
     ELSE [err |-> "nil", isNil |-> FALSE, ManifestID |-> (CHOOSE t \in hits : TRUE).ManifestID]

\* ManifestStore.Get
ManifestStoreGet(rows, id) ==
  LET hits == {x \in rows : x.ID = id}
  IN IF hits = {} THEN [err |-> ErrResourceNotFound]
     ELSE [err |-> "nil", rec |-> CHOOSE x \in hits : TRUE]

\* Manifest types docker.DBManifestToManifest distinguishes.
Schema2 == "schema2.DeserializedManifest"
OCISchema == "ocischema.DeserializedManifest"
ManifestList == "manifestlist.DeserializedManifestList"

ProcessOutcome(err, list) == [panic |-> FALSE, err |-> err, list |-> list]
ProcessPanic == [panic |-> TRUE, err |-> "nil", list |-> <<>>]

\* ProcessManifest: registry, tag, manifest row, then the details by
\* manifest type.  Only an error other than sql.ErrNoRows ends the call
\* after FindTag; t.ManifestID is read next.
ProcessManifest(regInfo, image, version, db, miss, failing) ==
  LET registry == GetByParentIDAndName(db.registries, regInfo.parentID,
                                       regInfo.RegistryIdentifier)
  IN IF ~registry.found THEN ProcessOutcome(ErrResourceNotFound, <<>>)
     ELSE
       LET t == FindTag(db.tags, registry.rec.ID, image, version, miss)
       IN IF t.err # "nil" /\ t.err # ErrNoRows THEN ProcessOutcome(t.err, <<>>)
          ELSE IF t.isNil THEN ProcessPanic
          ELSE
            LET m == ManifestStoreGet(db.manifests, t.ManifestID)
            IN IF m.err # "nil" THEN ProcessOutcome(m.err, <<>>)
               ELSE IF m.rec.MediaType \in {Schema2, OCISchema}
               THEN LET mConfig == getManifestConfig(db.blobs, m.rec.Configuration)
                    IN IF mConfig.err # "nil" THEN ProcessOutcome(mConfig.err, <<>>)
                       ELSE ProcessOutcome("nil", <<getManifestDetails(m.rec, mConfig)>>)
               ELSE LET l == getManifestList(m.rec.Manifests, <<>>, registry.rec, image,
                                             db.manifests, db.blobs, failing)
                    IN ProcessOutcome(l.err, l.list)

\* ----------------------------------------------------------- process data
\* Manifest rows of image "img": an image manifest, a second one, and a
\* manifest list over the two.
TypedRow(id, registryID, dgst, mediaType, children) ==
  [ID |-> id, RegistryID |-> registryID, Image |-> Str("img"), Digest |-> dgst,
   Configuration |-> dgst, Blobs |-> {dgst}, MediaType |-> mediaType,
   Manifests |-> children]

ProcessRows ==
  UNION { { TypedRow(10 * g.ID + 1, g.ID, DigestD1, Schema2, <<>>),
            TypedRow(10 * g.ID + 2, g.ID, DigestD2, OCISchema, <<>>),
            TypedRow(10 * g.ID + 3, g.ID, DigestD3, ManifestList, <<DigestD1, DigestD2>>) }
          : g \in ListRegistries }

\* Tag "latest" names the image manifest, tag "v1" the manifest list.
ProcessTags ==
  UNION { { [RegistryID |-> g.ID, Image |-> Str("img"), Name |-> Str("latest"),
             ManifestID |-> 10 * g.ID + 1],
            [RegistryID |-> g.ID, Image |-> Str("img"), Name |-> Str("v1"),
             ManifestID |-> 10 * g.ID + 3] }
          : g \in ListRegistries }

ProcessBlobs == { BlobRow(DigestD1, Str("linux/amd64")), BlobRow(DigestD2, Str("linux/arm64")) }

ProcessVersions == { Str("latest"), Str("v1"), Str("v9") }

ProcessRequests ==
  [registry : ListRegistries, version : ProcessVersions, miss : MissBehaviours,
   failing : {{}, {DigestD2}}]

\* ----------------------------------------------------------- process spec
\* Every stored tag names a stored manifest (I3); children of a manifest
\* list may be absent.
InitProcess ==
  /\ spaces = InitSpaces
  /\ registries = InitRegistries
  /\ manifests \in SUBSET ProcessRows
  /\ tags \in SUBSET {t \in ProcessTags : \E x \in manifests : x.ID = t.ManifestID}
  /\ blobs \in SUBSET ProcessBlobs
  /\ images = {}
  /\ downloadStats = {}
  /\ bandwidthStats = {}
  /\ upstreamProxies = {}
  /\ upstreamUse = {}
  /\ ProcessIdle
  /\ ListIdle
  /\ LifecycleIdle
  /\ ExecIdle
  /\ InfraIdle
  /\ UploadIdle
  /\ PutIdle
  /\ PatchIdle
  /\ SetupIdle
  /\ DeleteIdle
  /\ OCIIdle

\* One call of ProcessManifest for image "img".
ProcessManifestCall ==
  /\ pmReq = NoVal
  /\ \E r \in ProcessRequests :
       /\ pmReq' = r
       /\ pmResp' = ProcessManifest(
                      [parentID |-> r.registry.ParentID, RegistryIdentifier |-> r.registry.Name],
                      Str("img"), r.version, Tables, r.miss, r.failing)
  /\ UNCHANGED <<spaces, registries, outsideProcess>>

NextProcess == ProcessManifestCall

SpecProcessManifest == InitProcess /\ [][NextProcess]_vars

\* ---------------------------------------------------------------- C25
ProcessAnswered == pmResp # NoVal

\* The tag rows the last call asked for.
RequestedTags ==
  { t \in tags : t.RegistryID = pmReq.registry.ID /\ t.Image = Str("img")
                   /\ t.Name = pmReq.version }

\* C25: a ProcessManifest call for a version without a tag returns an
\* error, neither details nor a panic; a call returns details only when
\* the tag and the manifest it names are stored.
C25_MissingTagIsError ==
  ProcessAnswered =>
     /\ RequestedTags = {} => (~pmResp.panic /\ pmResp.err # "nil")
     /\ (~pmResp.panic /\ pmResp.err = "nil") =>
          \E t \in RequestedTags : \E x \in manifests : x.ID = t.ManifestID

\* ======================================================================
\* APIController.GetClientSetupDetails (the handler around the generator)

\* ImageStore.GetByName
GetByName(imageRows, registryID, name) ==
  \E x \in imageRows : x.RegistryID = registryID /\ x.Name = name

\* The package type stored with a registry: upstream registries of the
\* data hold Helm charts, the others container images.
PackageTypeOf(g) == IF g.Type = UPSTREAM THEN HELM ELSE DOCKER

SetupOutcome(status, err, details) ==
  [panic |-> FALSE, status |-> status, err |-> err, details |-> details]
SetupPanic == [panic |-> TRUE, status |-> "none", err |-> FALSE, details |-> <<>>]

\* A tag store that reports a missing row as ErrResourceNotFound.
MissAsNotFound == [err |-> ErrResourceNotFound, nilTag |-> TRUE]

\* GetClientSetupDetails.  The error of GetRegistryRequestBaseInfo is
\* dropped and regInfo.ParentRef is read next; the tag is looked up only
\* inside the branch for a given image.
GetClientSetupDetails(r, db, spaceSet) ==
  LET regInfo == GetRegistryRequestBaseInfo(db.registries, spaceSet, r.ref)
  IN IF ~regInfo.ok THEN SetupPanic
     ELSE LET space == FindByRef(spaceSet, regInfo.ParentRef)
     IN IF ~space.found THEN SetupOutcome("400", FALSE, <<>>)
     ELSE IF ~CheckRegistry(r.session, space.rec, regInfo.RegistryIdentifier,
                            PermissionRegistryView)
          THEN SetupOutcome("403", FALSE, <<>>)
     ELSE LET reg == GetByParentIDAndName(db.registries, regInfo.parentID,
                                          regInfo.RegistryIdentifier)
     IN IF ~reg.found THEN SetupOutcome("404", TRUE, <<>>)
     ELSE IF ~r.image.nil /\ ~GetByName(db.images, reg.rec.ID, r.image.value)
          THEN SetupOutcome("404", TRUE, <<>>)
     ELSE IF ~r.image.nil /\ ~r.tag.nil
             /\ FindTag(db.tags, reg.rec.ID, r.image.value, r.tag.value,
                        MissAsNotFound).err # "nil"
          THEN SetupOutcome("404", TRUE, <<>>)
     ELSE SetupOutcome("200", FALSE,
            GenerateClientSetupDetails(r.scheme, r.session, PackageTypeOf(reg.rec),
                                       r.image, r.tag, r.ref))

\* ----------------------------------------------------------- handler data
HandlerSessions ==
  { [user |-> "admin", email |-> Str("admin@example.com"), perms |-> Permissions],
    [user |-> "viewer", email |-> Str("dev@example.com"), perms |-> {PermissionRegistryView}],
    [user |-> "anonymous", email |-> Empty, perms |-> {}] }

HandlerRequests ==
  [scheme : SchemeAtoms, session : HandlerSessions, image : SetupImages,
   tag : SetupTags, ref : DeleteRefs]

\* ----------------------------------------------------------- handler spec
\* Registries "reg" and "up" may hold image "img" with tag "latest".
InitSetupHandler ==
  /\ spaces = InitSpaces
  /\ registries = InitRegistries
  /\ \E stocked \in SUBSET Stockable :
       /\ images = {ImageRow(i) : i \in stocked}
       /\ manifests = {ManifestRow(i) : i \in stocked}
       /\ tags = {TagRow(i) : i \in stocked}
  /\ downloadStats = {}
  /\ bandwidthStats = {}
  /\ upstreamProxies = InitUpstreamProxies
  /\ upstreamUse = {}
  /\ blobs = InitBlobs
  /\ SetupIdle
  /\ ProcessIdle
  /\ ListIdle
  /\ LifecycleIdle
  /\ ExecIdle
  /\ InfraIdle
  /\ UploadIdle
  /\ PutIdle
  /\ PatchIdle
  /\ DeleteIdle
  /\ OCIIdle

\* One GetClientSetupDetails call, from request to response.
GetClientSetupDetailsCall ==
  /\ setupReq = NoVal
  /\ \E r \in HandlerRequests :
       /\ setupReq' = r
       /\ setupResp' = GetClientSetupDetails(r, Tables, spaces)
  /\ UNCHANGED <<spaces, registries, outsideSetup>>

NextSetupHandler == GetClientSetupDetailsCall

SpecSetupHandler == InitSetupHandler /\ [][NextSetupHandler]_vars

\* ---------------------------------------------------------------- C26
\* What the last request names, looked up in the tables.
SetupSpace == FindByRef(spaces, DisectLeaf(setupReq.ref).parent)
SetupRegistry ==
  { g \in registries :
      SetupSpace.found /\ g.ParentID = SetupSpace.rec.ID
        /\ g.Name = DisectLeaf(setupReq.ref).leaf }
SetupMayView == PermissionRegistryView \in setupReq.session.perms
SetupImageOK ==
  setupReq.image.nil
    \/ \E g \in SetupRegistry : GetByName(images, g.ID, setupReq.image.value)
SetupTagOK ==
  setupReq.tag.nil
    \/ \E g \in SetupRegistry : \E t \in tags :
          /\ t.RegistryID = g.ID
          /\ t.Name = setupReq.tag.value
          /\ (setupReq.image.nil \/ t.Image = setupReq.image.value)

\* The status the first failed condition asks for.
ExpectedSetupStatus ==
  IF ~SetupSpace.found THEN "400"
  ELSE IF ~SetupMayView THEN "403"
  ELSE IF SetupRegistry = {} \/ ~SetupImageOK \/ ~SetupTagOK THEN "404"
  ELSE "200"

\* C26: GetClientSetupDetails answers 200 only if the parent space is
\* found, the caller may view the registry, the registry exists, a given
\* image exists and a given version exists; otherwise it answers the 400,
\* 403 or 404 of the first failed condition.
C26_SetupStatus ==
  SetupAnswered =>
     /\ ~setupResp.panic
     /\ setupResp.status = ExpectedSetupStatus

\* ======================================================================
\* infraprovider.Service.UpsertInfraProvider (gitspace infra providers)

InfraFailFind == "Service.Find"
InfraFailCreate == "infraProviderConfigStore.Create"
InfraFails == {FailNone, InfraFailFind, InfraFailCreate}

InfraTables(configs, resources) == [configs |-> configs, resources |-> resources]

\* Service.Find: the configuration of a space by identifier
InfraFind(db, spaceID, identifier) ==
  LET hits == {c \in db.configs : c.SpaceID = spaceID /\ c.Identifier = identifier}
  IN IF hits = {} THEN NotFound ELSE Found(CHOOSE c \in hits : TRUE)

\* The id the store assigns to a new configuration row.
NextConfigID(db) == Cardinality(db.configs) + 1

\* createConfig: infraProviderConfigStore.Create
createConfig(db, spaceID, cfg) ==
  [db EXCEPT !.configs = @ \cup { [ID |-> NextConfigID(db), SpaceID |-> spaceID,
                                   Identifier |-> cfg.Identifier, Name |-> cfg.Name] }]

\* infraProviderFactory.GetInfraProvider knows the provider type
KnownProviderTypes == {"docker"}

\* validate: fails for an unknown provider type
validate(resource) == resource.InfraProviderType \in KnownProviderTypes

ResourceRow(resource, configID, spaceID) ==
  [UID |-> resource.UID, Name |-> resource.Name,
   InfraProviderType |-> resource.InfraProviderType,
   InfraProviderConfigID |-> configID, SpaceID |-> spaceID]

\* One turn of the loop of UpsertResources: create the resource when
\* FindByIdentifier(spaceID, UID) finds none, update it otherwise.
UpsertResource(db, resource, configID, spaceID) ==
  [db EXCEPT !.resources =
     {x \in @ : ~(x.SpaceID = spaceID /\ x.UID = resource.UID)}
       \cup {ResourceRow(resource, configID, spaceID)}]

InfraOK(db) == [panic |-> FALSE, failed |-> FALSE, db |-> db]
InfraErr(db) == [panic |-> FALSE, failed |-> TRUE, db |-> db]
InfraPanic(db) == [panic |-> TRUE, failed |-> FALSE, db |-> db]

\* UpsertResources
RECURSIVE UpsertResources(_, _, _, _)
UpsertResources(db, resources, configID, spaceID) ==
  IF resources = <<>> THEN InfraOK(db)
  ELSE IF ~validate(Head(resources)) THEN InfraErr(db)
  ELSE UpsertResources(UpsertResource(db, Head(resources), configID, spaceID),
                       Tail(resources), configID, spaceID)

\* upsertConfig.  The update branch is entered on "else if err != nil":
\* for a store error of Find other than not-found, where providerConfigInDB
\* is nil and its ID is read before updateConfig; a configuration that
\* was found is not updated.
upsertConfig(db, space, cfg, fail) ==
  LET providerConfigInDB == InfraFind(db, space.ID, cfg.Identifier)
  IN IF fail = InfraFailFind THEN InfraPanic(db)
     ELSE IF ~providerConfigInDB.found
     THEN IF fail = InfraFailCreate THEN InfraErr(db)
          ELSE LET created == createConfig(db, space.ID, cfg)
               IN UpsertResources(created, cfg.Resources,
                                  InfraFind(created, space.ID, cfg.Identifier).rec.ID,
                                  space.ID)
     ELSE UpsertResources(db, cfg.Resources, providerConfigInDB.rec.ID, space.ID)

\* UpsertInfraProvider: space lookup and upsertConfig in one transaction
UpsertInfraProvider(db, spaceSet, cfg, fail) ==
  LET space == FindByRef(spaceSet, cfg.SpacePath)
  IN IF ~space.found THEN InfraErr(db)
     ELSE LET out == upsertConfig(db, space.rec, cfg, fail)
          IN IF out.failed \/ out.panic THEN [out EXCEPT !.db = db] ELSE out

\* ------------------------------------------------------------- infra data
InfraResource(uid, name, type) == [UID |-> uid, Name |-> name, InfraProviderType |-> type]

ResourceLists ==
  { <<>>,
    <<InfraResource("r1", "small", "docker")>>,
    <<InfraResource("r1", "large", "docker"), InfraResource("r2", "small", "docker")>>,
    <<InfraResource("r1", "small", "docker"), InfraResource("r1", "large", "docker")>>,
    <<InfraResource("r2", "small", "bogus")>> }

InfraSpacePaths == { <<"root", Slash, "proj">>, <<"ghost">> }

InfraRequests ==
  [Identifier : {"cfgA", "cfgB"}, SpacePath : InfraSpacePaths, Name : {"old", "new"},
   Resources : ResourceLists, fail : InfraFails]

\* ------------------------------------------------------------- infra spec
InitInfra ==
  /\ spaces = InitSpaces
  /\ registries = InitRegistries
  /\ TablesEmpty
  /\ blobs = {}
  /\ infraConfigs = {}
  /\ infraResources = {}
  /\ infraReq = NoVal
  /\ infraResp = NoVal
  /\ ProcessIdle
  /\ SetupIdle
  /\ ListIdle
  /\ LifecycleIdle
  /\ ExecIdle
  /\ UploadIdle
  /\ PutIdle
  /\ PatchIdle
  /\ DeleteIdle
  /\ OCIIdle

\* One UpsertInfraProvider call.  existed records whether the space
\* already held a configuration with the identifier.
UpsertInfraProviderCall ==
  \E r \in InfraRequests :
    LET db == InfraTables(infraConfigs, infraResources)
        out == UpsertInfraProvider(db, spaces, r, r.fail)
        space == FindByRef(spaces, r.SpacePath)
    IN /\ infraReq' = r
       /\ infraResp' = [panic |-> out.panic, failed |-> out.failed,
                        existed |-> space.found
                                      /\ InfraFind(db, space.rec.ID, r.Identifier).found]
       /\ infraConfigs' = out.db.configs
       /\ infraResources' = out.db.resources
       /\ UNCHANGED <<spaces, registries, outsideInfra>>

NextInfra == UpsertInfraProviderCall

SpecInfra == InitInfra /\ [][NextInfra]_vars

\* ---------------------------------------------------------------- C27
InfraSucceeded == infraResp # NoVal /\ ~infraResp.panic /\ ~infraResp.failed

\* The stored configurations the last request names.
StoredConfig ==
  { c \in infraConfigs :
      /\ c.Identifier = infraReq.Identifier
      /\ \E sp \in spaces : sp.ID = c.SpaceID /\ SpacePath(sp) = infraReq.SpacePath }

\* C27: after a successful UpsertInfraProvider the space holds exactly one
\* configuration with the identifier, it carries the supplied values
\* whether it was created or already existed, and every supplied resource
\* is stored with the id of that configuration and the id of the space.
C27_UpsertStoresSupplied ==
  InfraSucceeded =>
     /\ Cardinality(StoredConfig) = 1
     /\ \A c \in StoredConfig :
          /\ c.Name = infraReq.Name
          /\ \A i \in 1..Len(infraReq.Resources) :
               \E x \in infraResources :
                  /\ x.UID = infraReq.Resources[i].UID
                  /\ x.InfraProviderConfigID = c.ID
                  /\ x.SpaceID = c.SpaceID

\* ======================================================================
\* ExecuteCommandInHomeDirAndLog (gitspace orchestrator, container commands)

\* Messages the histories keep, and messages the channel holds in the model
\* (the code buffers a thousand).
MaxSent == 3
ChanCap == 2

\* devcontainer.ChannelExitStatus and devcontainer.LoggerErrorPrefix, each
\* one atom at the head of a message.
ChannelExitStatus == "DEVCONTAINER_EXIT_STATUS"
LoggerErrorPrefix == "ERR>> "

Digits == {"0", "1"}
DigitValue(d) == IF d = "0" THEN 0 ELSE 1

\* Value of a digit string, base 10.
RECURSIVE Decimal(_)
Decimal(ds) ==
  IF ds = <<>> THEN 0 ELSE 10 * Decimal(SubSeq(ds, 1, Len(ds) - 1)) + DigitValue(ds[Len(ds)])

\* strconv.Atoi: an optional sign and at least one digit, nothing else.
Atoi(str) ==
  LET signed == str # <<>> /\ str[1] \in {"+", "-"}
      ds == IF signed THEN Tail(str) ELSE str
  IN IF ds = <<>> \/ \E i \in 1..Len(ds) : ds[i] \notin Digits
     THEN [ok |-> FALSE, value |-> 0]
     ELSE [ok |-> TRUE,
           value |-> IF signed /\ str[1] = "-" THEN 0 - Decimal(ds) ELSE Decimal(ds)]

ErrInvalidExitStatus == "invalid exit status format"
ErrNonZeroExit == "command exited with non-zero status"
ErrStart == "exec start failed"
ErrContext == "context canceled"

Handling(done, err, logged) == [done |-> done, err |-> err, logged |-> logged]

\* a handler for which a non-zero exit status is a success
handleOutputChannelIgnoreCode(output, verbose) ==
  IF output # <<>> /\ output[1] = ChannelExitStatus
  THEN IF ~Atoi(Tail(output)).ok THEN Handling(TRUE, ErrInvalidExitStatus, FALSE)
       ELSE Handling(TRUE, "nil", FALSE)
  ELSE Handling(FALSE, "nil",
                output # <<>> /\ (verbose \/ output[1] = LoggerErrorPrefix))

\* a handler that goes on after exit status zero
handleOutputChannelContinueOnZero(output, verbose) ==
  IF output # <<>> /\ output[1] = ChannelExitStatus
  THEN LET exitCode == Atoi(Tail(output))
       IN IF ~exitCode.ok THEN Handling(TRUE, ErrInvalidExitStatus, FALSE)
          ELSE IF exitCode.value # 0 THEN Handling(TRUE, ErrNonZeroExit, TRUE)
          ELSE Handling(FALSE, "nil", FALSE)
  ELSE Handling(FALSE, "nil",
                output # <<>> /\ (verbose \/ output[1] = LoggerErrorPrefix))

\* handleOutputChannel: (done, error) for one message, and whether the
\* logger was called
handleOutputChannel(output, verbose) ==
  IF output # <<>> /\ output[1] = ChannelExitStatus
  THEN LET exitCode == Atoi(Tail(output))
       IN IF ~exitCode.ok THEN Handling(TRUE, ErrInvalidExitStatus, FALSE)
          ELSE IF exitCode.value # 0 THEN Handling(TRUE, ErrNonZeroExit, TRUE)
          ELSE Handling(TRUE, "nil", FALSE)
  ELSE Handling(FALSE, "nil",
                output # <<>> /\ (verbose \/ output[1] = LoggerErrorPrefix))

\* -------------------------------------------------------------- exec data
ExitMessage(code) == <<ChannelExitStatus>> \o code
Messages ==
  { <<"out">>, <<LoggerErrorPrefix, "out">>, <<>>,
    ExitMessage(<<"0">>), ExitMessage(<<"+", "0", "0">>), ExitMessage(<<"-", "1">>),
    ExitMessage(<<"0", "x">>) }

\* Append to a history that keeps its first MaxSent entries.
Record(history, x) == IF Len(history) < MaxSent THEN Append(history, x) ELSE history

ExecResult(err, cause, last) == [err |-> err, cause |-> cause, last |-> last]

\* -------------------------------------------------------------- exec spec
InitExec ==
  /\ spaces = InitSpaces
  /\ registries = InitRegistries
  /\ TablesEmpty
  /\ blobs = {}
  /\ execPc = "init"
  /\ outputCh = <<>>
  /\ sent = <<>>
  /\ handled = <<>>
  /\ ctxDone = FALSE
  /\ execVerbose \in BOOLEAN
  /\ execResult = NoVal
  /\ InfraIdle
  /\ ProcessIdle
  /\ SetupIdle
  /\ ListIdle
  /\ LifecycleIdle
  /\ UploadIdle
  /\ PutIdle
  /\ PatchIdle
  /\ DeleteIdle
  /\ OCIIdle

execFrame == <<spaces, registries, outsideExec>>

\* lines 161-165: the command is started, or starting it fails
StartExec ==
  /\ execPc = "init"
  /\ \E started \in BOOLEAN :
       IF started
       THEN execPc' = "running" /\ execResult' = execResult
       ELSE execPc' = "returned" /\ execResult' = ExecResult(ErrStart, "start", <<>>)
  /\ UNCHANGED <<outputCh, sent, handled, ctxDone, execVerbose, execFrame>>

\* The command's goroutine writes a message to the buffered channel.
SendOutput ==
  /\ execPc = "running"
  /\ Len(outputCh) < ChanCap
  /\ \E m \in Messages :
       /\ outputCh' = Append(outputCh, m)
       /\ sent' = Record(sent, m)
  /\ UNCHANGED <<execPc, handled, ctxDone, execVerbose, execResult, execFrame>>

\* lines 169-173: select takes the next message
ReceiveOutput ==
  /\ execPc = "running"
  /\ outputCh # <<>>
  /\ LET output == Head(outputCh)
         h == handleOutputChannel(output, execVerbose)
     IN /\ outputCh' = Tail(outputCh)
        /\ handled' = Record(handled, [msg |-> output, logged |-> h.logged])
        /\ IF h.done
           THEN execPc' = "returned" /\ execResult' = ExecResult(h.err, "exit", output)
           ELSE execPc' = execPc /\ execResult' = execResult
  /\ UNCHANGED <<sent, ctxDone, execVerbose, execFrame>>

\* The caller cancels the context, or its deadline passes.
CancelContext ==
  /\ ~ctxDone
  /\ execPc # "returned"
  /\ ctxDone' = TRUE
  /\ UNCHANGED <<execPc, outputCh, sent, handled, execVerbose, execResult, execFrame>>

\* lines 174-176: select takes ctx.Done()
ReturnOnDone ==
  /\ execPc = "running"
  /\ ctxDone
  /\ execPc' = "returned"
  /\ execResult' = ExecResult(ErrContext, "ctx", <<>>)
  /\ UNCHANGED <<outputCh, sent, handled, ctxDone, execVerbose, execFrame>>

NextExec ==
  \/ StartExec
  \/ SendOutput
  \/ ReceiveOutput
  \/ CancelContext
  \/ ReturnOnDone

SpecExec == InitExec /\ [][NextExec]_vars

\* select chooses among its ready cases at random, so a case that stays
\* ready is eventually taken.
SpecExecLive ==
  InitExec /\ [][NextExec]_vars /\ WF_vars(ReceiveOutput) /\ WF_vars(ReturnOnDone)

\* ---------------------------------------------------------------- C28
ExecReturned == execPc = "returned"

IsExitStatus(m) == m # <<>> /\ m[1] = ChannelExitStatus
ExitCodeOf(m) == Atoi(Tail(m))

\* C28: the call returns nil only on an exit-status message with code 0;
\* a non-zero or malformed exit status, a failed start and a done context
\* each return an error; the messages handled are, in order, the messages
\* sent.
C28_ExecResult ==
  /\ [i \in 1..Len(handled) |-> handled[i].msg] = SubSeq(sent, 1, Len(handled))
  /\ ExecReturned =>
       /\ execResult.err = "nil" =>
            /\ execResult.cause = "exit"
            /\ IsExitStatus(execResult.last)
            /\ ExitCodeOf(execResult.last) = [ok |-> TRUE, value |-> 0]
       /\ (execResult.cause = "exit" /\ ~ExitCodeOf(execResult.last).ok)
            => execResult.err = ErrInvalidExitStatus
       /\ (execResult.cause = "exit" /\ ExitCodeOf(execResult.last).ok
             /\ ExitCodeOf(execResult.last).value # 0)
            => execResult.err = ErrNonZeroExit
       /\ execResult.cause = "start" => execResult.err = ErrStart
       /\ execResult.cause = "ctx" => (execResult.err = ErrContext /\ ctxDone)
       /\ execResult.cause = "exit" => IsExitStatus(execResult.last)

\* Two lines of output, then an exit status that is zero with a sign and
\* two digits.
C28_Witness ==
  /\ ExecReturned
  /\ execResult.err = "nil"
  /\ Len(handled) = 3
  /\ handled[1].msg = <<LoggerErrorPrefix, "out">>
  /\ handled[1].logged
  /\ handled[2].msg = <<"out">>
  /\ execResult.last = ExitMessage(<<"+", "0", "0">>)

\* ---------------------------------------------------------------- C29
ExitStatusQueued == \E i \in 1..Len(outputCh) : IsExitStatus(outputCh[i])

Space == " "

\* strings.Join(elems, " ")
RECURSIVE JoinSpace(_)
JoinSpace(elems) ==
  IF elems = <<>> THEN Empty
  ELSE IF Len(elems) = 1 THEN elems[1]
  ELSE elems[1] \o <<Space>> \o JoinSpace(Tail(elems))

\* A decoded JSON value: a string, a number, an array of strings and
\* numbers, or (for a document) an object as a set of members.
JString(str) == [kind |-> "string", str |-> str, elems |-> <<>>]
JNumber == [kind |-> "number", str |-> Empty, elems |-> <<>>]
JArray(elems) == [kind |-> "array", str |-> Empty, elems |-> elems]
JObject == [kind |-> "object", str |-> Empty, elems |-> <<>>]
Member(key, val) == [key |-> key, val |-> val]
Document(val, members) == [val |-> val, members |-> members]

\* json.Unmarshal of a value into a string
IsString(v) == v.kind = "string"
\* json.Unmarshal of a value into a []string
IsStringArray(v) ==
  v.kind = "array" /\ \A i \in 1..Len(v.elems) : v.elems[i].kind = "string"
Strings(v) == [i \in 1..Len(v.elems) |-> v.elems[i].str]

\* Optional slice and map fields: nil, or a value.
NoMap == [nil |-> TRUE, value |-> {}]
SomeMap(entries) == [nil |-> FALSE, value |-> entries]

LifecycleCommand(str, arr, map) ==
  [CommandString |-> str, CommandArray |-> arr, CommandMap |-> map]
ZeroCommand == LifecycleCommand(Empty, Nil, NoMap)

\* Keys of an object that encoding/json matches to a field of the struct
\* (by its json tag, ignoring case).
FieldKeys == {"commandString", "commandArray", "commandMap"}

\* json.Unmarshal(data, &alias): any JSON object decodes into the struct;
\* keys that match no field are ignored, a matching key must hold a value
\* of the field's type (no string, number or array is a map).
AliasFits(d) ==
  /\ d.val.kind = "object"
  /\ \A m \in d.members :
       /\ m.key = "commandString" => IsString(m.val)
       /\ m.key = "commandArray" => IsStringArray(m.val)
       /\ m.key # "commandMap"
AliasOf(d) ==
  LET strs == {m \in d.members : m.key = "commandString"}
      arrs == {m \in d.members : m.key = "commandArray"}
  IN LifecycleCommand(
       IF strs = {} THEN Empty ELSE (CHOOSE m \in strs : TRUE).val.str,
       IF arrs = {} THEN Nil ELSE Ptr(Strings((CHOOSE m \in arrs : TRUE).val)),
       NoMap)

\* lines 70-88: a member of the command map, or no string for it
MemberFits(m) == IsString(m.val) \/ IsStringArray(m.val)
MemberCommand(m) == IF IsString(m.val) THEN m.val.str ELSE JoinSpace(Strings(m.val))

Decoded(err, cmd) == [err |-> err, lc |-> cmd]

\* LifecycleCommand.UnmarshalJSON on a zero command: the struct itself
\* first, then a string, an array of strings, a map.
UnmarshalJSON(d) ==
  IF AliasFits(d) THEN Decoded("nil", AliasOf(d))
  ELSE IF IsString(d.val)
  THEN Decoded("nil", [ZeroCommand EXCEPT !.CommandString = d.val.str])
  ELSE IF IsStringArray(d.val)
  THEN Decoded("nil", [ZeroCommand EXCEPT !.CommandArray = Ptr(Strings(d.val))])
  ELSE IF d.val.kind = "object"
  THEN IF \E m \in d.members : ~MemberFits(m)
       THEN Decoded("invalid command map", ZeroCommand)
       ELSE Decoded("nil",
              [ZeroCommand EXCEPT !.CommandMap =
                 SomeMap({ [tag |-> m.key, command |-> MemberCommand(m)] : m \in d.members })])
  ELSE Decoded("invalid format", ZeroCommand)

\* The orders in which a range over a map can visit its entries.
RECURSIVE Orders(_)
Orders(entries) ==
  IF entries = {} THEN { <<>> }
  ELSE UNION { { <<e.command>> \o rest : rest \in Orders(entries \ {e}) } : e \in entries }

\* LifecycleCommand.ToCommandArray: the command lists it can return
ToCommandArray(cmd) ==
  IF cmd.CommandString # Empty THEN { <<cmd.CommandString>> }
  ELSE IF ~cmd.CommandArray.nil THEN { <<JoinSpace(cmd.CommandArray.value)>> }
  ELSE IF ~cmd.CommandMap.nil THEN Orders(cmd.CommandMap.value)
  ELSE { <<>> }

\* --------------------------------------------------------- lifecycle data
Words == { Str("ls"), Str("npm") }
MemberValues ==
  { JString(Str("ls")), JArray(<<JString(Str("npm")), JString(Str("start"))>>),
    JNumber, JArray(<<JString(Str("ls")), JNumber>>) }
MemberKeys == { "server", "db", "commandString" }

\* Objects: each key absent or present with one of the member values.
Objects ==
  { Document(JObject, { Member(k, pick[k]) : k \in {j \in MemberKeys : pick[j] # JObject} }) :
      pick \in [MemberKeys -> MemberValues \cup {JObject}] }

Documents ==
  { Document(JString(Empty), {}), Document(JString(<<"npm", Space, "start">>), {}),
    Document(JNumber, {}), Document(JArray(<<>>), {}),
    Document(JArray(<<JString(Str("ls"))>>), {}),
    Document(JArray(<<JString(Str("npm")), JString(Str("start"))>>), {}),
    Document(JArray(<<JString(Str("ls")), JNumber>>), {}) } \cup Objects

\* --------------------------------------------------------- lifecycle spec
InitLifecycle ==
  /\ spaces = InitSpaces
  /\ registries = InitRegistries
  /\ TablesEmpty
  /\ blobs = {}
  /\ lcData \in Documents
  /\ lc = ZeroCommand
  /\ lcErr = NoVal
  /\ lcCommands = NoVal
  /\ ExecIdle
  /\ InfraIdle
  /\ ProcessIdle
  /\ SetupIdle
  /\ ListIdle
  /\ UploadIdle
  /\ PutIdle
  /\ PatchIdle
  /\ DeleteIdle
  /\ OCIIdle

lifecycleFrame == <<spaces, registries, outsideLifecycle>>

\* json.Unmarshal of the document calls UnmarshalJSON.
UnmarshalJSONCall ==
  /\ lcErr = NoVal
  /\ LET out == UnmarshalJSON(lcData)
     IN lcErr' = [err |-> out.err] /\ lc' = out.lc
  /\ UNCHANGED <<lcData, lcCommands, lifecycleFrame>>

\* The orchestrator asks the decoded command for its command list.
ToCommandArrayCall ==
  /\ lcErr = [err |-> "nil"]
  /\ lcCommands = NoVal
  /\ \E list \in ToCommandArray(lc) : lcCommands' = [list |-> list]
  /\ UNCHANGED <<lcData, lc, lcErr, lifecycleFrame>>

NextLifecycle ==
  \/ UnmarshalJSONCall
  \/ ToCommandArrayCall

SpecLifecycle == InitLifecycle /\ [][NextLifecycle]_vars

\* ---------------------------------------------------------------- C30
\* The document is a non-empty map from tags to a command string or an
\* array of strings.
IsCommandMap(d) ==
  d.val.kind = "object" /\ d.members # {} /\ \A m \in d.members : MemberFits(m)

\* C30: a JSON string is stored in CommandString, an array of strings in
\* CommandArray and a map of tags in CommandMap with arrays joined by one
\* space, and ToCommandArray returns a non-empty list for each of these
\* that is non-empty.
C30_FormatsAccepted ==
  /\ (lcErr # NoVal /\ IsString(lcData.val)) =>
        (lcErr.err = "nil" /\ lc.CommandString = lcData.val.str)
  /\ (lcErr # NoVal /\ IsStringArray(lcData.val)) =>
        (lcErr.err = "nil" /\ lc.CommandArray = Ptr(Strings(lcData.val)))
  /\ (lcErr # NoVal /\ IsCommandMap(lcData)) =>
        /\ lcErr.err = "nil"
        /\ ~lc.CommandMap.nil
        /\ \A m \in lcData.members :
             \E e \in lc.CommandMap.value : e.tag = m.key /\ e.command = MemberCommand(m)
  /\ (lcCommands # NoVal
        /\ \/ (IsString(lcData.val) /\ lcData.val.str # Empty)
           \/ (IsStringArray(lcData.val) /\ lcData.val.elems # <<>>)
           \/ IsCommandMap(lcData)) =>
        lcCommands.list # <<>>

====
